---- MODULE Spec2Model ----
(***************************************************************************)
(* Model of the two-level planner of mdp-algo: the pose-space A* search    *)
(* (MazeSolver._astar_search), the grid clearance predicates (Grid), the   *)
(* viewing-pose generator (Obstacle.get_view_state), the subset / slot     *)
(* enumeration with the TSP reduction (MazeSolver.get_optimal_path) and    *)
(* the motion reconstruction (MazeSolver.optimal_path_to_motion_path).     *)
(***************************************************************************)
EXTENDS Integers, Sequences, FiniteSets, TLC

VARIABLES
    grid,             \* Grid.size_x, Grid.size_y of the instance self.grid
    obstacles,        \* Grid.obstacles: list of Obstacle records
    robot,            \* the CellState object Robot.get_start_state() returns
    path_table,       \* MazeSolver.path_table: (CellState, CellState) -> [(x,y,d)]
    cost_table,       \* MazeSolver.cost_table: (CellState, CellState) -> cost
    motion_table,     \* MazeSolver.motion_table: (x,y,d) -> (x',y',d') -> Motion
    calls,            \* number of get_optimal_path calls made so far
    adds,             \* number of add_obstacle calls made so far
    plan,             \* what the last get_optimal_path call returned and did
    motions           \* what the last optimal_path_to_motion_path call returned

vars == <<grid, obstacles, robot, path_table, cost_table, motion_table, calls, adds, plan, motions>>

(***************************************************************************)
(* tools/movement.py : Direction and Motion                                *)
(***************************************************************************)
NORTH == 0
SOUTH == 1
EAST == 2
WEST == 3
SKIP == 4

FORWARD_LEFT_TURN == 0
FORWARD_OFFSET_LEFT == 1
FORWARD == 2
FORWARD_OFFSET_RIGHT == 3
FORWARD_RIGHT_TURN == 4
REVERSE_RIGHT_TURN == 6
REVERSE_OFFSET_LEFT == 7
REVERSE == 8
REVERSE_OFFSET_RIGHT == 9
REVERSE_LEFT_TURN == 10
CAPTURE == 1000

\* The value the ValueError branches of movement.py / algo.py stand for.
Raise == -1

\* Direction.rotation_cost(d1, d2): 0 for equal headings, 1 for a quarter
\* turn, ValueError for a half turn or an invalid d1.
rotation_cost(d1, d2) ==
    IF d1 \in {NORTH, SOUTH}
    THEN IF d2 \in {EAST, WEST} THEN 1 ELSE IF d2 = d1 THEN 0 ELSE Raise
    ELSE IF d1 \in {EAST, WEST}
    THEN IF d2 \in {NORTH, SOUTH} THEN 1 ELSE IF d2 = d1 THEN 0 ELSE Raise
    ELSE Raise

\* an inverse that keeps the side of an offset: the forward primitives and
\* the reverse primitives are taken to lie 6 apart
opposite_motion_six_apart(m) ==
    IF m = CAPTURE THEN CAPTURE
    ELSE IF m <= 4 THEN m + 6 ELSE m - 6

\* Motion.opposite_motion
opposite_motion(m) ==
    IF m = CAPTURE THEN CAPTURE
    ELSE IF 10 - m = 5 \/ 10 - m < 0 \/ 10 - m > 10 THEN Raise
    ELSE 10 - m

\* Motion.reverse_cost
reverse_cost(m) ==
    IF m = CAPTURE THEN Raise
    ELSE IF m \in {REVERSE_OFFSET_RIGHT, REVERSE_OFFSET_LEFT, REVERSE_LEFT_TURN,
                   REVERSE_RIGHT_TURN, REVERSE}
    THEN 1 ELSE 0

\* Motion.half_turn_cost
half_turn_cost(m) ==
    IF m \in {FORWARD_OFFSET_LEFT, FORWARD_OFFSET_RIGHT, REVERSE_OFFSET_LEFT,
              REVERSE_OFFSET_RIGHT}
    THEN 1 ELSE 0

(***************************************************************************)
(* tools/consts.py                                                         *)
(***************************************************************************)
TURN_FACTOR == 6
HALF_TURN_FACTOR == 10
REVERSE_FACTOR == 3
SAFE_COST == 1000
SCREENSHOT_COST == 100
TOO_CLOSE_COST == 50
TURN_PADDING == 2
MID_TURN_PADDING == 2
TURN_RADIUS == 1
TURNS == <<5 * TURN_RADIUS, 3 * TURN_RADIUS>>
HALF_TURNS == <<4 * TURN_RADIUS, 1 * TURN_RADIUS>>
MOVE_DIRECTION == << <<1, 0, EAST>>, <<-1, 0, WEST>>, <<0, 1, NORTH>>, <<0, -1, SOUTH>> >>
ITERATIONS == 2000
EXPANDED_CELL == 1

\* The class attributes Grid.size_x / Grid.size_y that the classmethod
\* is_valid_grid_position reads (not the instance's size).
GridClassSizeX == 20
GridClassSizeY == 20

\* 1e9, the initial min_dist and the cost-matrix filler of get_optimal_path
BIG == 1000000000

(***************************************************************************)
(* Bounds of the model                                                     *)
(***************************************************************************)
\* The size the Grid instance is constructed with (MazeSolver(size_x, size_y))
\* in the runs of Spec.
size_x == 8
size_y == 8
\* add_obstacle calls in one run
MaxAdds == 2
\* get_optimal_path calls in one run
MaxCalls == 2
\* get_optimal_path calls in one run of SpecWide
MaxCallsWide == 1
\* candidate lists, and slots in one list, handed to _generate_combinations
MaxLists == 6
MaxSlots == 4

Abs(n) == IF n < 0 THEN -n ELSE n
Max2(a, b) == IF a >= b THEN a ELSE b

\* dict helpers: a Python dict is a function with a finite domain
EmptyDict == <<>>
Put(f, k, v) == IF k \in DOMAIN f THEN [f EXCEPT ![k] = v] ELSE f @@ (k :> v)

(***************************************************************************)
(* entities/entity.py : Grid                                               *)
(***************************************************************************)
\* Grid.is_valid_coord with the lower limits off by one: row 0 and column 0
\* count as valid
is_valid_coord_from_zero(x, y) ==
    ~(x < 0 \/ x >= grid.size_x - 1 \/ y < 0 \/ y >= grid.size_y - 1)

\* Grid.is_valid_coord
is_valid_coord(x, y) ==
    ~(x < 1 \/ x >= grid.size_x - 1 \/ y < 1 \/ y >= grid.size_y - 1)

\* Grid.is_valid_grid_position (classmethod: reads the class attributes)
is_valid_grid_position(x, y) ==
    0 <= x /\ x < GridClassSizeX /\ 0 <= y /\ y < GridClassSizeY

\* Grid.reachable with a clearance of Manhattan distance 2 instead of more
\* than 2
reachable_at_two(obs, x, y) ==
    /\ is_valid_coord(x, y)
    /\ \A i \in 1..Len(obs) :
          /\ ~(Abs(obs[i].x - x) + Abs(obs[i].y - y) < 2)
          /\ ~(Max2(Abs(obs[i].x - x), Abs(obs[i].y - y)) < 2)

\* Grid.reachable without the clearance around the obstacles: every cell of
\* the interior counts as reachable
reachable_without_clearance(obs, x, y) == is_valid_coord(x, y)

\* Grid.reachable
reachable(obs, x, y) ==
    /\ is_valid_coord(x, y)
    /\ \A i \in 1..Len(obs) :
          /\ ~(Abs(obs[i].x - x) + Abs(obs[i].y - y) <= 2)
          /\ ~(Max2(Abs(obs[i].x - x), Abs(obs[i].y - y)) < 2)

\* Grid.half_turn_reachable
half_turn_reachable(obs, x, y, new_x, new_y) ==
    /\ is_valid_coord(x, y)
    /\ is_valid_coord(new_x, new_y)
    /\ LET lx == IF new_x < x THEN new_x ELSE x
           hx == IF new_x < x THEN x ELSE new_x
           ly == IF new_y < y THEN new_y ELSE y
           hy == IF new_y < y THEN y ELSE new_y
           padding == 2 * EXPANDED_CELL
       IN \A i \in 1..Len(obs) :
             IF Abs(lx - hx) > Abs(ly - hy)
             THEN ~(lx <= obs[i].x /\ obs[i].x <= hx
                    /\ ly - padding <= obs[i].y /\ obs[i].y <= hy + padding)
             ELSE ~(lx - padding <= obs[i].x /\ obs[i].x <= hx + padding
                    /\ ly <= obs[i].y /\ obs[i].y <= hy)

\* Grid._get_turn_checking_points, every coordinate multiplied by 4 so that
\* the halves and quarters of the source stay integers.
turn_checking_points4(x, y, new_x, new_y, direction) ==
    IF direction \in {NORTH, SOUTH}
    THEN << <<3 * x + new_x, 2 * (y + new_y)>>,
            <<3 * x + new_x, 3 * new_y + y>>,
            <<2 * (x + new_x), 3 * new_y + y>> >>
    ELSE << <<2 * (x + new_x), 3 * y + new_y>>,
            <<3 * new_x + x, 3 * y + new_y>>,
            <<3 * new_x + x, 2 * (y + new_y)>> >>

\* Grid.turn_reachable: sqrt(h^2 + v^2) < padding is compared on the squares
turn_reachable(obs, x, y, new_x, new_y, direction) ==
    /\ is_valid_coord(x, y)
    /\ is_valid_coord(new_x, new_y)
    /\ LET points == turn_checking_points4(x, y, new_x, new_y, direction)
       IN \A i \in 1..Len(obs) :
            /\ ~((obs[i].x - x) * (obs[i].x - x) + (obs[i].y - y) * (obs[i].y - y)
                   < TURN_PADDING * TURN_PADDING)
            /\ ~((obs[i].x - new_x) * (obs[i].x - new_x)
                   + (obs[i].y - new_y) * (obs[i].y - new_y)
                   < TURN_PADDING * TURN_PADDING)
            /\ \A p \in 1..3 :
                 ~((4 * obs[i].x - points[p][1]) * (4 * obs[i].x - points[p][1])
                    + (4 * obs[i].y - points[p][2]) * (4 * obs[i].y - points[p][2])
                    < 16 * MID_TURN_PADDING * MID_TURN_PADDING)

(***************************************************************************)
(* algorithms/algo.py : neighbour enumeration                              *)
(***************************************************************************)
\* MazeSolver._get_half_turn_displacement
half_turn_displacement(direction) ==
    IF direction = NORTH THEN <<HALF_TURNS[2], HALF_TURNS[1]>>
    ELSE IF direction = SOUTH THEN <<-HALF_TURNS[2], -HALF_TURNS[1]>>
    ELSE IF direction = EAST THEN <<HALF_TURNS[1], HALF_TURNS[2]>>
    ELSE <<-HALF_TURNS[1], -HALF_TURNS[2]>>

\* MazeSolver._calculate_safe_cost
calculate_safe_cost(obs, new_x, new_y) ==
    IF \E i \in 1..Len(obs) :
          Abs(obs[i].x - new_x) <= 2 /\ Abs(obs[i].y - new_y) <= 2
    THEN SAFE_COST ELSE 0

\* The md == direction branch of _get_neighboring_states: the candidate
\* moves in the order the source tries them, each with the clearance test
\* that gates it.
StraightMoves(obs, x, y, direction, dx, dy) ==
    LET d == half_turn_displacement(direction)
        delta_x == d[1]
        delta_y == d[2]
        half(nx, ny, m) ==
            [x |-> nx, y |-> ny, motion |-> m, extra |-> 0,
             ok |-> half_turn_reachable(obs, x, y, nx, ny)]
    IN << [x |-> x + dx, y |-> y + dy, motion |-> FORWARD, extra |-> 0,
           ok |-> reachable(obs, x + dx, y + dy)],
          [x |-> x - dx, y |-> y - dy, motion |-> REVERSE, extra |-> 0,
           ok |-> reachable(obs, x - dx, y - dy)] >>
       \o (IF direction \in {NORTH, SOUTH}
           THEN << half(x + delta_x, y + delta_y, FORWARD_OFFSET_RIGHT),
                   half(x - delta_x, y + delta_y, FORWARD_OFFSET_LEFT),
                   half(x + delta_x, y - delta_y, REVERSE_OFFSET_RIGHT),
                   half(x - delta_x, y - delta_y, REVERSE_OFFSET_LEFT) >>
           ELSE << half(x + delta_x, y - delta_y, FORWARD_OFFSET_RIGHT),
                   half(x + delta_x, y + delta_y, FORWARD_OFFSET_LEFT),
                   half(x - delta_x, y - delta_y, REVERSE_OFFSET_RIGHT),
                   half(x - delta_x, y + delta_y, REVERSE_OFFSET_LEFT) >>)

\* the turns with the two displacements of TURNS taken the other way round:
\* the larger one along the old heading for a forward turn
TurnMoves_big_first(obs, x, y, direction, md) ==
    LET delta_big == TURNS[2]
        delta_small == TURNS[1]
        turn(nx, ny, m) ==
            [x |-> nx, y |-> ny, motion |-> m, extra |-> 10,
             ok |-> turn_reachable(obs, x, y, nx, ny, direction)]
    IN IF direction = NORTH /\ md = EAST
       THEN << turn(x + delta_big, y + delta_small, FORWARD_RIGHT_TURN),
               turn(x - delta_small, y - delta_big, REVERSE_LEFT_TURN) >>
       ELSE IF direction = EAST /\ md = NORTH
       THEN << turn(x + delta_small, y + delta_big, FORWARD_LEFT_TURN),
               turn(x - delta_big, y - delta_small, REVERSE_RIGHT_TURN) >>
       ELSE IF direction = EAST /\ md = SOUTH
       THEN << turn(x + delta_small, y - delta_big, FORWARD_RIGHT_TURN),
               turn(x - delta_big, y + delta_small, REVERSE_LEFT_TURN) >>
       ELSE IF direction = SOUTH /\ md = EAST
       THEN << turn(x + delta_big, y - delta_small, FORWARD_LEFT_TURN),
               turn(x - delta_small, y + delta_big, REVERSE_RIGHT_TURN) >>
       ELSE IF direction = SOUTH /\ md = WEST
       THEN << turn(x - delta_big, y - delta_small, FORWARD_RIGHT_TURN),
               turn(x + delta_small, y + delta_big, REVERSE_LEFT_TURN) >>
       ELSE IF direction = WEST /\ md = SOUTH
       THEN << turn(x - delta_small, y - delta_big, FORWARD_LEFT_TURN),
               turn(x + delta_big, y + delta_small, REVERSE_RIGHT_TURN) >>
       ELSE IF direction = WEST /\ md = NORTH
       THEN << turn(x - delta_small, y + delta_big, FORWARD_RIGHT_TURN),
               turn(x + delta_big, y - delta_small, REVERSE_LEFT_TURN) >>
       ELSE IF direction = NORTH /\ md = WEST
       THEN << turn(x - delta_big, y + delta_small, FORWARD_LEFT_TURN),
               turn(x + delta_small, y - delta_big, REVERSE_RIGHT_TURN) >>
       ELSE << >>

\* The md != direction branch: the eight (direction, md) cases, each with a
\* forward and a reverse turn; a half-turn pair (N<->S, E<->W) matches none.
TurnMoves(obs, x, y, direction, md) ==
    LET delta_big == TURNS[1]
        delta_small == TURNS[2]
        turn(nx, ny, m) ==
            [x |-> nx, y |-> ny, motion |-> m, extra |-> 10,
             ok |-> turn_reachable(obs, x, y, nx, ny, direction)]
    IN IF direction = NORTH /\ md = EAST
       THEN << turn(x + delta_big, y + delta_small, FORWARD_RIGHT_TURN),
               turn(x - delta_small, y - delta_big, REVERSE_LEFT_TURN) >>
       ELSE IF direction = EAST /\ md = NORTH
       THEN << turn(x + delta_small, y + delta_big, FORWARD_LEFT_TURN),
               turn(x - delta_big, y - delta_small, REVERSE_RIGHT_TURN) >>
       ELSE IF direction = EAST /\ md = SOUTH
       THEN << turn(x + delta_small, y - delta_big, FORWARD_RIGHT_TURN),
               turn(x - delta_big, y + delta_small, REVERSE_LEFT_TURN) >>
       ELSE IF direction = SOUTH /\ md = EAST
       THEN << turn(x + delta_big, y - delta_small, FORWARD_LEFT_TURN),
               turn(x - delta_small, y + delta_big, REVERSE_RIGHT_TURN) >>
       ELSE IF direction = SOUTH /\ md = WEST
       THEN << turn(x - delta_big, y - delta_small, FORWARD_RIGHT_TURN),
               turn(x + delta_small, y + delta_big, REVERSE_LEFT_TURN) >>
       ELSE IF direction = WEST /\ md = SOUTH
       THEN << turn(x - delta_small, y - delta_big, FORWARD_LEFT_TURN),
               turn(x + delta_big, y + delta_small, REVERSE_RIGHT_TURN) >>
       ELSE IF direction = WEST /\ md = NORTH
       THEN << turn(x - delta_small, y + delta_big, FORWARD_RIGHT_TURN),
               turn(x + delta_big, y - delta_small, REVERSE_LEFT_TURN) >>
       ELSE IF direction = NORTH /\ md = WEST
       THEN << turn(x - delta_big, y + delta_small, FORWARD_LEFT_TURN),
               turn(x + delta_small, y - delta_big, REVERSE_RIGHT_TURN) >>
       ELSE << >>

\* a pass of the loop in which a REVERSE move leaves the robot with the
\* heading turned around
MovesFor_reverse_turns_around(obs, x, y, direction, k) ==
    LET dx == MOVE_DIRECTION[k][1]
        dy == MOVE_DIRECTION[k][2]
        md == MOVE_DIRECTION[k][3]
        back == IF md = NORTH THEN SOUTH ELSE IF md = SOUTH THEN NORTH
                ELSE IF md = EAST THEN WEST ELSE EAST
        cands == IF md = direction
                 THEN StraightMoves(obs, x, y, direction, dx, dy)
                 ELSE TurnMoves(obs, x, y, direction, md)
        kept == SelectSeq(cands, LAMBDA c : c.ok)
    IN [i \in 1..Len(kept) |->
          <<kept[i].x, kept[i].y, IF kept[i].motion = REVERSE THEN back ELSE md,
            calculate_safe_cost(obs, kept[i].x, kept[i].y) + kept[i].extra,
            kept[i].motion>>]

\* One pass of the "for dx, dy, md in MOVE_DIRECTION" loop.
MovesFor(obs, x, y, direction, k) ==
    LET dx == MOVE_DIRECTION[k][1]
        dy == MOVE_DIRECTION[k][2]
        md == MOVE_DIRECTION[k][3]
        cands == IF md = direction
                 THEN StraightMoves(obs, x, y, direction, dx, dy)
                 ELSE TurnMoves(obs, x, y, direction, md)
        kept == SelectSeq(cands, LAMBDA c : c.ok)
    IN [i \in 1..Len(kept) |->
          <<kept[i].x, kept[i].y, md,
            calculate_safe_cost(obs, kept[i].x, kept[i].y) + kept[i].extra,
            kept[i].motion>>]

\* MazeSolver._get_neighboring_states: the list of
\* (new_x, new_y, new_direction, safe_cost, motion)
get_neighboring_states(obs, x, y, direction) ==
    MovesFor(obs, x, y, direction, 1) \o MovesFor(obs, x, y, direction, 2)
        \o MovesFor(obs, x, y, direction, 3) \o MovesFor(obs, x, y, direction, 4)

(***************************************************************************)
(* algorithms/algo.py : A* search                                          *)
(*                                                                         *)
(* A CellState object is a record of its fields together with oid, the     *)
(* identity of the object: CellState defines neither __eq__ nor __hash__,  *)
(* so the dicts keyed by CellState objects compare them by identity.       *)
(***************************************************************************)
\* CellState.is_eq
is_eq(state, x, y, direction) ==
    state.x = x /\ state.y = y /\ state.direction = direction

\* MazeSolver._estimate_distance at level 0 (Manhattan distance)
estimate_distance(sx, sy, ex, ey) == Abs(sx - ex) + Abs(sy - ey)

\* Python's order on the heap entries (f, x, y, direction)
TupleLess(a, b) ==
    \/ a[1] < b[1]
    \/ a[1] = b[1] /\ a[2] < b[2]
    \/ a[1] = b[1] /\ a[2] = b[2] /\ a[3] < b[3]
    \/ a[1] = b[1] /\ a[2] = b[2] /\ a[3] = b[3] /\ a[4] < b[4]

\* The heap holds the tuples (f, x, y, direction) that _astar_search pushes.
\* It is kept as the sequence of its entries in the order heapq.heappop
\* returns them, least tuple first.  Every entry carries as a fifth
\* component the serial number of its push, which the code does not have:
\* it records the insertion order the entries are compared in only by the
\* properties below.
\* the position at which heappush places e: behind every entry that is not
\* greater than e
RECURSIVE UpperBound(_, _, _, _)
UpperBound(heap, e, lo, hi) ==
    IF lo > hi THEN lo
    ELSE IF TupleLess(e, heap[(lo + hi) \div 2])
    THEN UpperBound(heap, e, lo, ((lo + hi) \div 2) - 1)
    ELSE UpperBound(heap, e, ((lo + hi) \div 2) + 1, hi)

\* the position behind every entry whose f is not greater than that of e
RECURSIVE UpperBoundByF(_, _, _, _)
UpperBoundByF(heap, e, lo, hi) ==
    IF lo > hi THEN lo
    ELSE IF e[1] < heap[(lo + hi) \div 2][1]
    THEN UpperBoundByF(heap, e, lo, ((lo + hi) \div 2) - 1)
    ELSE UpperBoundByF(heap, e, ((lo + hi) \div 2) + 1, hi)

InsertAt(seq, e, p) == (SubSeq(seq, 1, p - 1) \o <<e>>) \o SubSeq(seq, p, Len(seq))

\* a heap that compares its entries by f alone: of equal f the entry pushed
\* first is popped first
heappush_by_f(heap, e) == InsertAt(heap, e, UpperBoundByF(heap, e, 1, Len(heap)))

\* heapq.heappush
heappush(heap, e) == InsertAt(heap, e, UpperBound(heap, e, 1, Len(heap)))

\* the entry of heap[k..] with the f of heap[1] that was pushed before
\* heap[1], 0 when there is none
RECURSIVE PushedBefore(_, _)
PushedBefore(heap, k) ==
    IF k > Len(heap) \/ heap[k][1] # heap[1][1] THEN 0
    ELSE IF heap[k][5] < heap[1][5] THEN k
    ELSE PushedBefore(heap, k + 1)

\* what a pop of heap[1] adds to the record of the pops: tied counts the
\* pops that found another entry of the same f in the heap, late those that
\* left behind an entry of the same f that was pushed earlier, and least
\* tells whether no pop so far left a smaller tuple behind
PopNoted(s) ==
    [s EXCEPT !.tied = IF Len(s.heap) > 1 /\ s.heap[2][1] = s.heap[1][1]
                       THEN @ + 1 ELSE @,
              !.late = IF PushedBefore(s.heap, 2) > 0 THEN @ + 1 ELSE @,
              !.least = @ /\ ~(Len(s.heap) > 1 /\ TupleLess(s.heap[2], s.heap[1]))]

\* "key in self.motion_table" for the key (x, y, d, x', y', d')
InMotionTable(mt, u, v) == u \in DOMAIN mt /\ v \in DOMAIN mt[u]

\* self.motion_table[(x, y, d, x', y', d')] = motion
PutMotion(mt, u, v, m) ==
    IF u \in DOMAIN mt THEN [mt EXCEPT ![u] = Put(@, v, m)]
    ELSE mt @@ (u :> (v :> m))

\* the cost of an edge without the replacement of a zero factor by 1: a
\* move that neither turns nor reverses nor offsets costs its proximity only
movement_cost_zero_factors(direction, new_direction, safe_cost, motion) ==
    LET rot == rotation_cost(direction, new_direction)
        rotation == TURN_FACTOR * rot
        reverse == REVERSE_FACTOR * reverse_cost(motion)
        half_turn == HALF_TURN_FACTOR * half_turn_cost(motion)
    IN IF rot = Raise THEN Raise
       ELSE reverse * half_turn * rotation + safe_cost

\* the cost of one edge, lines 277-297 of _astar_search; Raise when
\* Direction.rotation_cost raises
movement_cost(direction, new_direction, safe_cost, motion) ==
    LET rot == rotation_cost(direction, new_direction)
        rotation == IF TURN_FACTOR * rot = 0 THEN 1 ELSE TURN_FACTOR * rot
        reverse == IF REVERSE_FACTOR * reverse_cost(motion) = 0 THEN 1
                   ELSE REVERSE_FACTOR * reverse_cost(motion)
        half_turn == IF HALF_TURN_FACTOR * half_turn_cost(motion) = 0 THEN 1
                     ELSE HALF_TURN_FACTOR * half_turn_cost(motion)
    IN IF rot = Raise THEN Raise
       ELSE reverse * half_turn * rotation + safe_cost

\* the loop body with a parent that is written once: a later, cheaper way
\* into a pose replaces its g value and not its parent
VisitNeighbor_keeps_first_parent(s, end, x, y, direction, dist, nb) ==
    LET u == <<x, y, direction>>
        v == <<nb[1], nb[2], nb[3]>>
        mt == IF ~InMotionTable(s.motion_table, u, v) /\ ~InMotionTable(s.motion_table, v, u)
              THEN PutMotion(s.motion_table, u, v, nb[5])
              ELSE s.motion_table
        mc == movement_cost(direction, nb[3], nb[4], nb[5])
        screenshot_cost == IF is_eq(end, nb[1], nb[2], nb[3]) THEN end.penalty ELSE 0
        total_cost == dist + mc + screenshot_cost
                        + estimate_distance(nb[1], nb[2], end.x, end.y)
    IN IF v \in s.visited THEN s
       ELSE IF mc = Raise THEN [s EXCEPT !.motion_table = mt, !.status = "raised"]
       ELSE IF v \notin DOMAIN s.g_dist \/ s.g_dist[v] > dist + mc
       THEN [s EXCEPT !.motion_table = mt,
                      !.g_dist = Put(@, v, dist + mc + screenshot_cost),
                      !.heap = heappush(@, <<total_cost, nb[1], nb[2], nb[3], s.pushes + 1>>),
                      !.pushes = @ + 1,
                      !.pushed = @ \cup {v},
                      !.parent_dict = IF v \in DOMAIN @ THEN @ ELSE Put(@, v, u)]
       ELSE [s EXCEPT !.motion_table = mt]

\* The body of the loop over the neighbours of the popped node (x, y, direction),
\* lines 253-327, for the neighbour nb.
VisitNeighbor(s, end, x, y, direction, dist, nb) ==
    LET u == <<x, y, direction>>
        v == <<nb[1], nb[2], nb[3]>>
        mt == IF ~InMotionTable(s.motion_table, u, v) /\ ~InMotionTable(s.motion_table, v, u)
              THEN PutMotion(s.motion_table, u, v, nb[5])
              ELSE s.motion_table
        mc == movement_cost(direction, nb[3], nb[4], nb[5])
        screenshot_cost == IF is_eq(end, nb[1], nb[2], nb[3]) THEN end.penalty ELSE 0
        total_cost == dist + mc + screenshot_cost
                        + estimate_distance(nb[1], nb[2], end.x, end.y)
    IN IF v \in s.visited THEN s
       ELSE IF mc = Raise THEN [s EXCEPT !.motion_table = mt, !.status = "raised"]
       ELSE IF v \notin DOMAIN s.g_dist \/ s.g_dist[v] > dist + mc
       THEN [s EXCEPT !.motion_table = mt,
                      !.g_dist = Put(@, v, dist + mc + screenshot_cost),
                      !.heap = heappush(@, <<total_cost, nb[1], nb[2], nb[3], s.pushes + 1>>),
                      !.pushes = @ + 1,
                      !.pushed = @ \cup {v},
                      !.parent_dict = Put(@, v, u)]
       ELSE [s EXCEPT !.motion_table = mt]

RECURSIVE VisitNeighbors(_, _, _, _, _, _, _, _)
VisitNeighbors(s, end, x, y, direction, dist, nbs, k) ==
    IF k > Len(nbs) \/ s.status = "raised" THEN s
    ELSE VisitNeighbors(VisitNeighbor(s, end, x, y, direction, dist, nbs[k]),
                        end, x, y, direction, dist, nbs, k + 1)

\* a pass of the loop without the test of lines 232-233: a pose that is
\* popped again is expanded again
AfterPop_expands_again(obs, s, end, x, y, direction) ==
    IF is_eq(end, x, y, direction)
    THEN [s EXCEPT !.status = "found", !.cost = s.g_dist[<<x, y, direction>>]]
    ELSE VisitNeighbors([s EXCEPT !.visited = @ \cup {<<x, y, direction>>},
                                  !.expanded = @ + 1], end,
                        x, y, direction, s.g_dist[<<x, y, direction>>],
                        get_neighboring_states(obs, x, y, direction), 1)

\* One pass of the "while heap" loop of _astar_search
\* lines 227-251 for the popped node (x, y, direction); s is the search
\* after the pop.  expanded counts the passes that reach the loop over
\* the neighbours, skipped those that end at the "continue" of line 233.
AfterPop(obs, s, end, x, y, direction) ==
    IF <<x, y, direction>> \in s.visited THEN [s EXCEPT !.skipped = @ + 1]
    ELSE IF is_eq(end, x, y, direction)
    THEN [s EXCEPT !.status = "found", !.cost = s.g_dist[<<x, y, direction>>]]
    ELSE VisitNeighbors([s EXCEPT !.visited = @ \cup {<<x, y, direction>>},
                                  !.expanded = @ + 1], end,
                        x, y, direction, s.g_dist[<<x, y, direction>>],
                        get_neighboring_states(obs, x, y, direction), 1)

\* heapq.heappop (line 229), then the loop body
Popped(obs, s, end) ==
    AfterPop(obs, [s EXCEPT !.heap = Tail(@)], end, s.heap[1][2], s.heap[1][3], s.heap[1][4])

AstarStep(obs, s, end) == Popped(obs, PopNoted(s), end)

\* A search that starts with a motion table of its own instead of
\* self.motion_table
AstarStart_own_motions(start, end, mt) ==
    [heap |-> << <<estimate_distance(start.x, start.y, end.x, end.y),
                   start.x, start.y, start.direction, 1>> >>,
     g_dist |-> (<<start.x, start.y, start.direction>> :> 0),
     visited |-> {},
     parent_dict |-> EmptyDict,
     motion_table |-> EmptyDict,
     status |-> "search",
     cost |-> 0,
     pushed |-> {<<start.x, start.y, start.direction>>},
     pushes |-> 1,
     expanded |-> 0,
     skipped |-> 0,
     tied |-> 0,
     late |-> 0,
     least |-> TRUE]

\* The state of a search at the top of its first loop pass (lines 216-225)
AstarStart(start, end, mt) ==
    [heap |-> << <<estimate_distance(start.x, start.y, end.x, end.y),
                   start.x, start.y, start.direction, 1>> >>,
     g_dist |-> (<<start.x, start.y, start.direction>> :> 0),
     visited |-> {},
     parent_dict |-> EmptyDict,
     motion_table |-> mt,
     status |-> "search",
     cost |-> 0,
     pushed |-> {<<start.x, start.y, start.direction>>},
     pushes |-> 1,
     expanded |-> 0,
     skipped |-> 0,
     tied |-> 0,
     late |-> 0,
     least |-> TRUE]

\* Every pass of the "while heap" loop pops one entry, and a pose is
\* expanded at most once and pushes at most 14 neighbours: no search makes
\* more passes than this.
MaxPasses == 2 + 14 * 4 * grid.size_x * grid.size_y

\* The loop "while heap", run for at most n passes: "found" when the goal is
\* popped, "exhausted" when the heap runs empty, "raised" when rotation_cost
\* raises.  The passes are split in halves to keep the evaluation shallow.
RECURSIVE AstarPasses(_, _, _, _)
AstarPasses(obs, s, end, n) ==
    IF s.status # "search" THEN s
    ELSE IF Len(s.heap) = 0 THEN [s EXCEPT !.status = "exhausted"]
    ELSE IF n = 1 THEN AstarStep(obs, s, end)
    ELSE AstarPasses(obs, AstarPasses(obs, s, end, n \div 2), end, n - (n \div 2))

\* the loop is left with an empty heap
LoopExit(r) ==
    IF r.status = "search" /\ Len(r.heap) = 0 THEN [r EXCEPT !.status = "exhausted"]
    ELSE r

AstarLoop(obs, s, end) == LoopExit(AstarPasses(obs, s, end, MaxPasses))

\* The parent walk of _record_path: the chain from the end back to the start
RECURSIVE ParentWalk(_, _)
ParentWalk(parent, pointer) ==
    IF pointer \in DOMAIN parent
    THEN <<pointer>> \o ParentWalk(parent, parent[pointer])
    ELSE <<pointer>>

Reverse(seq) == [i \in 1..Len(seq) |-> seq[Len(seq) + 1 - i]]

\* _record_path without the entries for the reverse direction
StorePath_one_way(tables, start, end, path, cost) ==
    [tables EXCEPT !.path_table = Put(@, <<start, end>>, Reverse(path)),
                   !.cost_table = Put(@, <<start, end>>, cost)]

\* lines 679-684 of _record_path, path being the chain from the end back to
\* the start
StorePath(tables, start, end, path, cost) ==
    [tables EXCEPT !.path_table = Put(Put(@, <<start, end>>, Reverse(path)),
                                      <<end, start>>, path),
                   !.cost_table = Put(Put(@, <<start, end>>, cost),
                                      <<end, start>>, cost)]

\* MazeSolver._record_path: the tables with the new path and cost
record_path(tables, start, end, parent, cost) ==
    StorePath(tables, start, end, ParentWalk(parent, <<end.x, end.y, end.direction>>), cost)

\* a search that calls _record_path when the loop ends with an empty heap
\* as well
SearchDone_records_always(tables, start, end, s) ==
    [(IF s.status # "raised"
      THEN record_path(tables, start, end, s.parent_dict, s.cost)
      ELSE tables)
        EXCEPT !.motion_table = s.motion_table,
               !.raised = @ \/ s.status = "raised",
               !.exhausted = IF s.status = "exhausted" THEN @ \cup {<<start, end>>} ELSE @,
               !.unfinished = @ \/ s.status \notin {"found", "exhausted"},
               !.twice = @ \/ s.expanded # Cardinality(s.visited),
               !.skipped = @ + s.skipped,
               !.heap_log = @ \cup s.pushed,
               !.searches = @ + 1,
               !.tied = @ + s.tied,
               !.late = @ + s.late,
               !.least = @ /\ s.least]

\* MazeSolver._astar_search: the tables after the call, with the heap
\* traffic of the search added to the log and the pair added to the record
\* of the searches that emptied the heap
SearchDone(tables, start, end, s) ==
    [(IF s.status = "found"
      THEN record_path(tables, start, end, s.parent_dict, s.cost)
      ELSE tables)
        EXCEPT !.motion_table = s.motion_table,
               !.raised = @ \/ s.status = "raised",
               !.exhausted = IF s.status = "exhausted" THEN @ \cup {<<start, end>>} ELSE @,
               !.unfinished = @ \/ s.status \notin {"found", "exhausted"},
               !.twice = @ \/ s.expanded # Cardinality(s.visited),
               !.skipped = @ + s.skipped,
               !.heap_log = @ \cup s.pushed,
               !.searches = @ + 1,
               !.tied = @ + s.tied,
               !.late = @ + s.late,
               !.least = @ /\ s.least]

\* _astar_search with a memo lookup that compares the poses of the keys
\* instead of the objects
astar_search_by_pose(obs, tables, start, end) ==
    IF \E k \in DOMAIN tables.path_table :
          /\ is_eq(k[1], start.x, start.y, start.direction)
          /\ is_eq(k[2], end.x, end.y, end.direction)
    THEN tables
    ELSE SearchDone(tables, start, end,
                    AstarLoop(obs, AstarStart(start, end, tables.motion_table), end))

astar_search(obs, tables, start, end) ==
    IF <<start, end>> \in DOMAIN tables.path_table THEN tables
    ELSE SearchDone(tables, start, end,
                    AstarLoop(obs, AstarStart(start, end, tables.motion_table), end))

\* MazeSolver._generate_paths
RECURSIVE generate_paths(_, _, _, _, _)
generate_paths(obs, tables, states, i, j) ==
    IF i > Len(states) - 1 \/ tables.raised THEN tables
    ELSE IF j > Len(states) THEN generate_paths(obs, tables, states, i + 1, i + 2)
    ELSE generate_paths(obs, astar_search(obs, tables, states[i], states[j]),
                        states, i, j + 1)

(***************************************************************************)
(* entities/entity.py : the viewing-pose generator                         *)
(***************************************************************************)
\* the screenshot_id of the robot's start state is a list that lives in the
\* variable robot; it is no part of the object's identity
NoScreenshot == -1

\* the viewing slots of an obstacle that faces south laid out on the rows
\* above the obstacle, as they are for one that faces north
get_view_state_above(ob, call, i) ==
    LET offset == 2 * EXPANDED_CELL
        positions ==
            IF ob.direction = NORTH
            THEN << <<ob.x, ob.y + offset>>, <<ob.x - 1, ob.y + 2 + offset>>,
                    <<ob.x + 1, ob.y + 2 + offset>>, <<ob.x, ob.y + 1 + offset>>,
                    <<ob.x, ob.y + 2 + offset>> >>
            ELSE IF ob.direction = SOUTH
            THEN << <<ob.x, ob.y + offset>>, <<ob.x - 1, ob.y + 2 + offset>>,
                    <<ob.x + 1, ob.y + 2 + offset>>, <<ob.x, ob.y + 1 + offset>>,
                    <<ob.x, ob.y + 2 + offset>> >>
            ELSE IF ob.direction = EAST
            THEN << <<ob.x + offset, ob.y>>, <<ob.x + 2 + offset, ob.y + 1>>,
                    <<ob.x + 2 + offset, ob.y - 1>>, <<ob.x + 1 + offset, ob.y>>,
                    <<ob.x + 2 + offset, ob.y>> >>
            ELSE IF ob.direction = WEST
            THEN << <<ob.x - offset, ob.y>>, <<ob.x - 2 - offset, ob.y + 1>>,
                    <<ob.x - 2 - offset, ob.y - 1>>, <<ob.x - 1 - offset, ob.y>>,
                    <<ob.x - 2 - offset, ob.y>> >>
            ELSE << >>
        costs == <<TOO_CLOSE_COST, SCREENSHOT_COST, SCREENSHOT_COST,
                   TOO_CLOSE_COST \div 2, 0>>
        facing == IF ob.direction = NORTH THEN SOUTH
                  ELSE IF ob.direction = SOUTH THEN NORTH
                  ELSE IF ob.direction = EAST THEN WEST
                  ELSE EAST
        cells == [k \in 1..Len(positions) |->
                    [x |-> positions[k][1], y |-> positions[k][2],
                     direction |-> facing, screenshot_id |-> ob.obstacle_id,
                     penalty |-> costs[k], oid |-> <<call, i, k>>]]
    IN SelectSeq(cells, LAMBDA c : is_valid_grid_position(c.x, c.y))

\* Obstacle.get_view_state: the CellState objects made for obstacle number i
\* during planning call number call; the object made for slot k gets the
\* identity <<call, i, k>>
get_view_state(ob, call, i) ==
    LET offset == 2 * EXPANDED_CELL
        positions ==
            IF ob.direction = NORTH
            THEN << <<ob.x, ob.y + offset>>, <<ob.x - 1, ob.y + 2 + offset>>,
                    <<ob.x + 1, ob.y + 2 + offset>>, <<ob.x, ob.y + 1 + offset>>,
                    <<ob.x, ob.y + 2 + offset>> >>
            ELSE IF ob.direction = SOUTH
            THEN << <<ob.x, ob.y - offset>>, <<ob.x + 1, ob.y - 2 - offset>>,
                    <<ob.x - 1, ob.y - 2 - offset>>, <<ob.x, ob.y - 1 - offset>>,
                    <<ob.x, ob.y - 2 - offset>> >>
            ELSE IF ob.direction = EAST
            THEN << <<ob.x + offset, ob.y>>, <<ob.x + 2 + offset, ob.y + 1>>,
                    <<ob.x + 2 + offset, ob.y - 1>>, <<ob.x + 1 + offset, ob.y>>,
                    <<ob.x + 2 + offset, ob.y>> >>
            ELSE IF ob.direction = WEST
            THEN << <<ob.x - offset, ob.y>>, <<ob.x - 2 - offset, ob.y + 1>>,
                    <<ob.x - 2 - offset, ob.y - 1>>, <<ob.x - 1 - offset, ob.y>>,
                    <<ob.x - 2 - offset, ob.y>> >>
            ELSE << >>
        costs == <<TOO_CLOSE_COST, SCREENSHOT_COST, SCREENSHOT_COST,
                   TOO_CLOSE_COST \div 2, 0>>
        facing == IF ob.direction = NORTH THEN SOUTH
                  ELSE IF ob.direction = SOUTH THEN NORTH
                  ELSE IF ob.direction = EAST THEN WEST
                  ELSE EAST
        cells == [k \in 1..Len(positions) |->
                    [x |-> positions[k][1], y |-> positions[k][2],
                     direction |-> facing, screenshot_id |-> ob.obstacle_id,
                     penalty |-> costs[k], oid |-> <<call, i, k>>]]
    IN SelectSeq(cells, LAMBDA c : is_valid_grid_position(c.x, c.y))

\* Grid.get_view_obstacle_positions
RECURSIVE get_view_obstacle_positions(_, _, _)
get_view_obstacle_positions(obs, call, i) ==
    IF i > Len(obs) THEN << >>
    ELSE IF obs[i].direction = SKIP
    THEN get_view_obstacle_positions(obs, call, i + 1)
    ELSE << SelectSeq(get_view_state(obs[i], call, i),
                      LAMBDA c : reachable(obs, c.x, c.y)) >>
           \o get_view_obstacle_positions(obs, call, i + 1)

\* Grid.find_obstacle_by_id: the position of the first obstacle with the id,
\* 0 for None
RECURSIVE find_obstacle_by_id(_, _, _)
find_obstacle_by_id(obs, obstacle_id, i) ==
    IF i > Len(obs) THEN 0
    ELSE IF obs[i].obstacle_id = obstacle_id THEN i
    ELSE find_obstacle_by_id(obs, obstacle_id, i + 1)

(***************************************************************************)
(* algorithms/algo.py : subset and slot enumeration, TSP                   *)
(***************************************************************************)
\* the number of "1" in the n-digit binary string of v
RECURSIVE CountOnes(_)
CountOnes(v) == IF v = 0 THEN 0 ELSE (v % 2) + CountOnes(v \div 2)

\* bin(v)[2:].zfill(n): the digits, most significant first; "0" for n = 0
Digits(v, n) == IF n = 0 THEN <<0>> ELSE [i \in 1..n |-> (v \div (2 ^ (n - i))) % 2]

\* the values of 0..2^n - 1 with exactly c ones, ascending
RECURSIVE WithOnes(_, _, _)
WithOnes(n, c, v) ==
    IF v >= 2 ^ n THEN << >>
    ELSE (IF CountOnes(v) = c THEN <<Digits(v, n)>> ELSE << >>) \o WithOnes(n, c, v + 1)

\* MazeSolver._get_visit_options: the strings of range(2**n) under a stable
\* sort by the count of ones, largest count first
RECURSIVE OptionsFrom(_, _)
OptionsFrom(n, c) ==
    IF c < 0 THEN << >> ELSE WithOnes(n, c, 0) \o OptionsFrom(n, c - 1)

\* the visit options sorted by the count of ones, smallest count first
RECURSIVE OptionsUpFrom(_, _)
OptionsUpFrom(n, c) ==
    IF c > n THEN << >> ELSE WithOnes(n, c, 0) \o OptionsUpFrom(n, c + 1)

get_visit_options_ascending(n) == OptionsUpFrom(n, 0)

\* the visit options without the option that visits no obstacle
get_visit_options_nonempty(n) ==
    SelectSeq(OptionsFrom(n, n), LAMBDA b : \E i \in 1..Len(b) : b[i] = 1)

get_visit_options(n) == OptionsFrom(n, n)

\* MazeSolver._generate_combinations; the slot indices are those of Python
\* (from 0)
RECURSIVE generate_combinations(_, _, _, _, _)
RECURSIVE CombinationsLoop(_, _, _, _, _, _)
generate_combinations(view_positions, index, current, result, num_iters) ==
    IF index = Len(view_positions) THEN Append(result, current)
    ELSE IF num_iters = 0 THEN result
    ELSE CombinationsLoop(view_positions, index, current, result, num_iters - 1, 0)

\* the loop of lines 741-746 from i on; the result of the recursive call is
\* computed before the loop goes on
CombinationsLoop(view_positions, index, current, result, num_iters, i) ==
    IF i >= Len(view_positions[index + 1]) THEN result
    ELSE CHOOSE out \in
            {CombinationsLoop(view_positions, index, current, r, num_iters, i + 1) :
                r \in {generate_combinations(view_positions, index + 1,
                                             Append(current, i), result, num_iters)}} :
            TRUE

\* python_tsp.exact.solve_tsp_dynamic_programming as called at line 144:
\* dist(ni, N) of the Held-Karp recursion together with the order in which
\* it visits N; min() keeps the first of several least costs and the set N
\* of small integers is walked in ascending order.  Nodes are numbered from
\* 1, node 1 is the start.
\* A sum of costs, kept within 1e9: a tour over a missing path costs 1e9 or
\* more and the caller drops it whatever its cost, and no tour over found
\* paths comes near 1e9.
Capped(d) == IF d > BIG THEN BIG ELSE d

RECURSIVE TspDist(_, _, _)
RECURSIVE TspMin(_, _, _, _, _)
RECURSIVE TspBetter(_, _, _, _)
TspDist(m, ni, N) ==
    IF N = {} THEN [dist |-> m[ni][1], order |-> << >>]
    ELSE TspMin(m, ni, N, 2, [dist |-> -1, order |-> << >>])

TspMin(m, ni, N, nj, best) ==
    IF nj > Len(m) THEN best
    ELSE IF nj \notin N THEN TspMin(m, ni, N, nj + 1, best)
    ELSE TspMin(m, ni, N, nj + 1,
                TspBetter(best, m[ni][nj], nj, TspDist(m, nj, N \ {nj})))

\* min() over the costs c + sub.dist: a later equal cost does not replace
\* an earlier one
TspBetter(best, c, nj, sub) ==
    IF best.dist = -1 \/ Capped(c + sub.dist) < best.dist
    THEN [dist |-> Capped(c + sub.dist), order |-> <<nj>> \o sub.order]
    ELSE best

TspTour(r) == [permutation |-> <<1>> \o r.order, distance |-> r.dist]

solve_tsp_dynamic_programming(m) == TspTour(TspDist(m, 1, 2..Len(m)))

\* a label that is C whenever the obstacle is in the robot's column or row,
\* ahead of the robot or behind it
get_capture_relative_position_in_line(x, y, direction, x_obs, y_obs) ==
    IF direction = NORTH
    THEN IF x_obs = x THEN "C" ELSE IF x_obs < x THEN "L" ELSE "R"
    ELSE IF direction = SOUTH
    THEN IF x_obs = x THEN "C" ELSE IF x_obs < x THEN "R" ELSE "L"
    ELSE IF direction = EAST
    THEN IF y_obs = y THEN "C" ELSE IF y_obs < y THEN "R" ELSE "L"
    ELSE IF direction = WEST
    THEN IF y_obs = y THEN "C" ELSE IF y_obs < y THEN "L" ELSE "R"
    ELSE "raise"

\* MazeSolver._get_capture_relative_position
get_capture_relative_position(x, y, direction, x_obs, y_obs) ==
    IF direction = NORTH
    THEN IF x_obs = x /\ y_obs > y THEN "C" ELSE IF x_obs < x THEN "L" ELSE "R"
    ELSE IF direction = SOUTH
    THEN IF x_obs = x /\ y_obs < y THEN "C" ELSE IF x_obs < x THEN "R" ELSE "L"
    ELSE IF direction = EAST
    THEN IF y_obs = y /\ x_obs > x THEN "C" ELSE IF y_obs < y THEN "R" ELSE "L"
    ELSE IF direction = WEST
    THEN IF y_obs = y /\ x_obs < x THEN "C" ELSE IF y_obs < y THEN "L" ELSE "R"
    ELSE "raise"

(***************************************************************************)
(* algorithms/algo.py : MazeSolver.get_optimal_path                        *)
(***************************************************************************)
\* Robot.get_start_state as a key of the memo tables: always the same object
StartRef(r) ==
    [x |-> r.x, y |-> r.y, direction |-> r.direction, screenshot_id |-> NoScreenshot,
     penalty |-> r.penalty, oid |-> <<0, 0, 0>>]

Concat(seqs) ==
    LET RECURSIVE cat(_)
        cat(i) == IF i > Len(seqs) THEN << >> ELSE seqs[i] \o cat(i + 1)
    IN cat(1)

\* lines 87-96: the view lists of the obstacles whose digit in bin_pos is 1
cur_view_positions(views, bin_pos) ==
    LET RECURSIVE pick(_)
        pick(i) == IF i > Len(views) THEN << >>
                   ELSE (IF bin_pos[i] = 1 THEN <<views[i]>> ELSE << >>) \o pick(i + 1)
    IN pick(1)

\* lines 108-116: the positions in visit_states (from 0) of the start and of
\* the slot chosen for every obstacle
visited_of(cur, combination) ==
    LET RECURSIVE walk(_, _)
        walk(idx, current_idx) ==
            IF idx > Len(cur) THEN << >>
            ELSE <<current_idx + combination[idx]>>
                   \o walk(idx + 1, current_idx + Len(cur[idx]))
    IN <<0>> \o walk(1, 1)

\* the penalties of the chosen slots taken off the cost instead of added
penalty_of_as_bonus(cur, combination) ==
    LET RECURSIVE sum(_)
        sum(idx) == IF idx > Len(cur) THEN 0
                    ELSE sum(idx + 1) - cur[idx][combination[idx] + 1].penalty
    IN sum(1)

\* lines 110-116: the sum of the penalties of the chosen slots
penalty_of(cur, combination) ==
    LET RECURSIVE sum(_)
        sum(idx) == IF idx > Len(cur) THEN 0
                    ELSE cur[idx][combination[idx] + 1].penalty + sum(idx + 1)
    IN sum(1)

\* lines 119-138: the matrix of zeros with the entries above the diagonal
\* filled from cost_table, 1e9 where the key is absent, and copied below it
cost_matrix_filled(ct, visit_states, visited) ==
    LET n == Len(visited)
        entry(s, e) ==
            LET key == <<visit_states[visited[s] + 1], visit_states[visited[e] + 1]>>
            IN IF key \in DOMAIN ct THEN ct[key] ELSE BIG
    IN [i \in 1..n |-> [j \in 1..n |->
          IF i = j THEN 0
          ELSE IF i < j THEN entry(i, j) ELSE entry(j, i)]]

\* the cost matrix with 0 in place of the 1e9 for a pair without an entry
cost_matrix_of_absent_free(ct, visit_states, visited) ==
    LET n == Len(visited)
        entry(s, e) ==
            LET key == <<visit_states[visited[s] + 1], visit_states[visited[e] + 1]>>
            IN IF key \in DOMAIN ct THEN ct[key] ELSE 0
    IN [i \in 1..n |-> [j \in 1..n |->
          IF j = 1 \/ i = j THEN 0
          ELSE IF i < j THEN entry(i, j) ELSE entry(j, i)]]

\* lines 119-141: the symmetric cost matrix with column 0 forced to zero
cost_matrix_of(ct, visit_states, visited) ==
    LET n == Len(visited)
        entry(s, e) ==
            LET key == <<visit_states[visited[s] + 1], visit_states[visited[e] + 1]>>
            IN IF key \in DOMAIN ct THEN ct[key] ELSE BIG
    IN [i \in 1..n |-> [j \in 1..n |->
          IF j = 1 \/ i = j THEN 0
          ELSE IF i < j THEN entry(i, j) ELSE entry(j, i)]]

\* lines 153-185: the pose list for an accepted permutation.  The first
\* element is the robot's start state itself, every other element is a new
\* CellState; add_screenshot goes to whatever element is last.
\* the stitching loop started at index 0: the first pose of the segment is
\* copied as well
Extended_from_first(path, current_path) ==
    path \o [k \in 1..Len(current_path) |->
               [x |-> current_path[k][1], y |-> current_path[k][2],
                direction |-> current_path[k][3], screenshot_id |-> << >>]]

\* lines 162-166: the poses of current_path after its first, as new
\* CellState objects
Extended(path, current_path) ==
    path \o [k \in 1..(Len(current_path) - 1) |->
               [x |-> current_path[k + 1][1], y |-> current_path[k + 1][2],
                direction |-> current_path[k + 1][3], screenshot_id |-> << >>]]

\* lines 178-185: optimal_path[-1].add_screenshot(formatted), o being the
\* position of the obstacle found by id
Tagged(obs, extended, to_state, o) ==
    [extended EXCEPT ![Len(extended)].screenshot_id =
        Append(@, <<to_state.screenshot_id,
                    get_capture_relative_position(extended[Len(extended)].x,
                                                  extended[Len(extended)].y,
                                                  extended[Len(extended)].direction,
                                                  obs[o].x, obs[o].y)>>)]

\* lines 155-185: one leg of the tour, from from_state to to_state
build_leg(obs, pt, acc, from_state, to_state) ==
    IF <<from_state, to_state>> \notin DOMAIN pt
          \/ find_obstacle_by_id(obs, to_state.screenshot_id, 1) = 0
    THEN [acc EXCEPT !.raised = TRUE,
                     !.missing = @ \/ <<from_state, to_state>> \notin DOMAIN pt]
    ELSE [acc EXCEPT !.path = Tagged(obs, Extended(@, pt[<<from_state, to_state>>]),
                                      to_state,
                                      find_obstacle_by_id(obs, to_state.screenshot_id, 1))]

RECURSIVE build_path(_, _, _, _, _, _, _)
build_path(obs, pt, visit_states, visited, permutation, idx, acc) ==
    IF idx > Len(permutation) - 1 \/ acc.raised THEN acc
    ELSE build_path(obs, pt, visit_states, visited, permutation, idx + 1,
                    build_leg(obs, pt, acc,
                              visit_states[visited[permutation[idx]] + 1],
                              visit_states[visited[permutation[idx + 1]] + 1]))

\* lines 107-185: the loop body for one combination
\* lines 150-185: the combination is the best so far; built is its path
accept(ps, distance, built, combination, bin_pos) ==
    [ps EXCEPT !.min_dist = distance,
               !.optimal_path = built.path,
               !.start_tags = built.path[1].screenshot_id,
               !.raised = @ \/ built.raised,
               !.missing = @ \/ built.missing,
               !.bin_pos = bin_pos,
               !.combination = combination,
               !.accepted = @ + 1]

\* lines 144-185 with the test against min_dist replaced by a test against
\* the initial 1e9: every finite tour replaces the one kept so far
after_tsp_any_finite(obs, ps, visit_states, visited, cost, tsp, combination, bin_pos) ==
    IF tsp.distance + cost >= BIG THEN ps
    ELSE accept(ps, tsp.distance + cost,
                build_path(obs, ps.tables.path_table, visit_states, visited,
                           tsp.permutation, 1,
                           [path |-> << [x |-> visit_states[1].x, y |-> visit_states[1].y,
                                         direction |-> visit_states[1].direction,
                                         screenshot_id |-> ps.start_tags] >>,
                            raised |-> FALSE, missing |-> FALSE]),
                combination, bin_pos)

\* lines 144-185, tsp being the result of solve_tsp_dynamic_programming and
\* cost the sum of the penalties
after_tsp(obs, ps, visit_states, visited, cost, tsp, combination, bin_pos) ==
    IF tsp.distance + cost >= ps.min_dist THEN ps
    ELSE accept(ps, tsp.distance + cost,
                build_path(obs, ps.tables.path_table, visit_states, visited,
                           tsp.permutation, 1,
                           [path |-> << [x |-> visit_states[1].x, y |-> visit_states[1].y,
                                         direction |-> visit_states[1].direction,
                                         screenshot_id |-> ps.start_tags] >>,
                            raised |-> FALSE, missing |-> FALSE]),
                combination, bin_pos)

with_visited(obs, ps, visit_states, visited, cost, combination, bin_pos) ==
    after_tsp(obs, ps, visit_states, visited, cost,
              solve_tsp_dynamic_programming(
                  cost_matrix_of(ps.tables.cost_table, visit_states, visited)),
              combination, bin_pos)

try_combination(obs, ps, visit_states, cur, combination, bin_pos) ==
    with_visited(obs, ps, visit_states, visited_of(cur, combination),
                 penalty_of(cur, combination), combination, bin_pos)

RECURSIVE try_combinations(_, _, _, _, _, _, _)
try_combinations(obs, ps, visit_states, cur, combinations, bin_pos, k) ==
    IF k > Len(combinations) \/ ps.raised THEN ps
    ELSE try_combinations(obs,
            try_combination(obs, ps, visit_states, cur, combinations[k], bin_pos),
            visit_states, cur, combinations, bin_pos, k + 1)

\* line 99: the planner after self._generate_paths(visit_states)
with_tables(ps, tables, bin_pos) ==
    [ps EXCEPT !.tables = tables, !.raised = @ \/ tables.raised,
               !.tried = Append(@, bin_pos)]

\* lines 98-185 for the visit states of one option
with_states(obs, ps, visit_states, cur, bin_pos) ==
    try_combinations(obs,
        with_tables(ps, generate_paths(obs, ps.tables, visit_states, 1, 2), bin_pos),
        visit_states, cur,
        generate_combinations(cur, 0, << >>, << >>, ITERATIONS), bin_pos, 1)

\* lines 87-185: the loop body for one visit option
try_option(obs, ps, start, cur, bin_pos) ==
    with_states(obs, ps, <<start>> \o Concat(cur), cur, bin_pos)

\* lines 86-189: the loop over the visit options, left at the first option
\* that produced a path
RECURSIVE try_options(_, _, _, _, _, _)
try_options(obs, ps, start, views, options, k) ==
    IF k > Len(options) \/ ps.raised \/ Len(ps.optimal_path) > 0 THEN ps
    ELSE try_options(obs,
                     try_option(obs, ps, start,
                                cur_view_positions(views, options[k]), options[k]),
                     start, views, options, k + 1)

\* MazeSolver.get_optimal_path: the state of the planner when the call
\* returns (or raises); call is the number of this call, which names the
\* CellState objects the call creates
\* a planner that starts every call with empty tables
planner_start_empty_tables(r, pt, ct, mt) ==
    [tables |-> [path_table |-> EmptyDict, cost_table |-> EmptyDict,
                 motion_table |-> EmptyDict,
                 raised |-> FALSE, exhausted |-> {}, unfinished |-> FALSE,
                 twice |-> FALSE, skipped |-> 0, heap_log |-> {}, searches |-> 0,
                 tied |-> 0, late |-> 0, least |-> TRUE],
     min_dist |-> BIG,
     optimal_path |-> << >>,
     start_tags |-> r.screenshot_id,
     raised |-> FALSE,
     missing |-> FALSE,
     bin_pos |-> << >>,
     combination |-> << >>,
     accepted |-> 0,
     tried |-> << >>]

\* lines 82-84: the planner before the first option
planner_start(r, pt, ct, mt) ==
    [tables |-> [path_table |-> pt, cost_table |-> ct, motion_table |-> mt,
                 raised |-> FALSE, exhausted |-> {}, unfinished |-> FALSE,
                 twice |-> FALSE, skipped |-> 0, heap_log |-> {}, searches |-> 0,
                 tied |-> 0, late |-> 0, least |-> TRUE],
     min_dist |-> BIG,
     optimal_path |-> << >>,
     start_tags |-> r.screenshot_id,
     raised |-> FALSE,
     missing |-> FALSE,
     bin_pos |-> << >>,
     combination |-> << >>,
     accepted |-> 0,
     tried |-> << >>]

\* line 191: the first element of the returned list is the robot's start
\* state, which carries every tag it was given
returned(ps) ==
    [ps EXCEPT !.optimal_path =
        IF Len(@) > 0 THEN [@ EXCEPT ![1].screenshot_id = ps.start_tags] ELSE @]

with_views(obs, r, pt, ct, mt, views) ==
    returned(try_options(obs, planner_start(r, pt, ct, mt), StartRef(r), views,
                         get_visit_options(Len(views)), 1))

get_optimal_path(obs, r, pt, ct, mt, call) ==
    with_views(obs, r, pt, ct, mt, get_view_obstacle_positions(obs, call, 1))

(***************************************************************************)
(* algorithms/algo.py : MazeSolver.optimal_path_to_motion_path             *)
(***************************************************************************)
RECURSIVE optimal_path_to_motion_path(_, _, _, _)
optimal_path_to_motion_path(mt, optimal_path, i, acc) ==
    IF i > Len(optimal_path) - 1 \/ acc.raised THEN acc
    ELSE LET u == <<optimal_path[i].x, optimal_path[i].y, optimal_path[i].direction>>
             to_state == optimal_path[i + 1]
             v == <<to_state.x, to_state.y, to_state.direction>>
             motion == IF InMotionTable(mt, v, u) THEN opposite_motion(mt[v][u])
                       ELSE IF InMotionTable(mt, u, v) THEN mt[u][v]
                       ELSE Raise
             captures == [k \in 1..Len(to_state.screenshot_id) |-> CAPTURE]
         IN IF motion = Raise THEN [acc EXCEPT !.raised = TRUE]
            ELSE optimal_path_to_motion_path(mt, optimal_path, i + 1,
                    [acc EXCEPT !.motion_path = (@ \o <<motion>>) \o captures,
                                !.obstacle_id_list = @ \o to_state.screenshot_id])

(***************************************************************************)
(* The planner as a state machine: one MazeSolver object and the calls a   *)
(* client makes on it.                                                     *)
(***************************************************************************)
Obstacle(x, y, direction, obstacle_id) ==
    [x |-> x, y |-> y, direction |-> direction, obstacle_id |-> obstacle_id]

\* the obstacles a client may add
ObstacleMenu ==
    { Obstacle(1, 5, SOUTH, 1),
      Obstacle(1, 6, SOUTH, 2),
      Obstacle(2, 0, NORTH, 3),
      Obstacle(5, 4, WEST, 4),
      Obstacle(6, 6, SKIP, 5) }

\* the poses the robot may be constructed with
StartMenu == { <<1, 1, NORTH>> }

NoPlan ==
    [called |-> FALSE, call |-> 0, obstacles |-> << >>, path |-> << >>, cost |-> 0,
     raised |-> FALSE, search_raised |-> FALSE, exhausted |-> {}, missing |-> FALSE,
     unfinished |-> FALSE, twice |-> FALSE, skipped |-> 0,
     bin_pos |-> << >>, combination |-> << >>, accepted |-> 0, tried |-> << >>,
     heap_log |-> {}, searches |-> 0, tied |-> 0, late |-> 0, least |-> TRUE]

NoMotions ==
    [called |-> FALSE, motion_path |-> << >>, obstacle_id_list |-> << >>, raised |-> FALSE]

\* MazeSolver.__init__
Init ==
    /\ grid = [size_x |-> size_x, size_y |-> size_y]
    /\ obstacles = << >>
    /\ \E s \in StartMenu :
          robot = [x |-> s[1], y |-> s[2], direction |-> s[3],
                   screenshot_id |-> << >>, penalty |-> 0]
    /\ path_table = EmptyDict
    /\ cost_table = EmptyDict
    /\ motion_table = EmptyDict
    /\ calls = 0
    /\ adds = 0
    /\ plan = NoPlan
    /\ motions = NoMotions

\* MazeSolver.add_obstacle / Grid.add_obstacle: a duplicate on
\* (x, y, direction) is ignored
AddObstacle(ob) ==
    /\ adds < MaxAdds
    /\ adds' = adds + 1
    /\ obstacles' =
          IF \E i \in 1..Len(obstacles) :
                /\ obstacles[i].x = ob.x
                /\ obstacles[i].y = ob.y
                /\ obstacles[i].direction = ob.direction
          THEN obstacles
          ELSE Append(obstacles, ob)
    /\ UNCHANGED <<grid, robot, path_table, cost_table, motion_table, calls, plan, motions>>

\* MazeSolver.clear_obstacles / Grid.reset_obstacles
ClearObstacles ==
    /\ Len(obstacles) > 0
    /\ obstacles' = << >>
    /\ UNCHANGED <<grid, robot, path_table, cost_table, motion_table, calls, adds, plan, motions>>

\* MazeSolver.get_optimal_path
GetOptimalPath ==
    /\ calls < MaxCalls
    /\ \E ps \in {get_optimal_path(obstacles, robot, path_table, cost_table,
                                    motion_table, calls + 1)} :
          /\ path_table' = ps.tables.path_table
          /\ cost_table' = ps.tables.cost_table
          /\ motion_table' = ps.tables.motion_table
          /\ robot' = [robot EXCEPT !.screenshot_id = ps.start_tags]
          /\ plan' = [called |-> TRUE, call |-> calls + 1, obstacles |-> obstacles,
                      path |-> ps.optimal_path, cost |-> ps.min_dist,
                      raised |-> ps.raised,
                      search_raised |-> ps.tables.raised,
                      exhausted |-> ps.tables.exhausted,
                      missing |-> ps.missing,
                      unfinished |-> ps.tables.unfinished,
                      twice |-> ps.tables.twice,
                      skipped |-> ps.tables.skipped,
                      bin_pos |-> ps.bin_pos, combination |-> ps.combination,
                      accepted |-> ps.accepted, tried |-> ps.tried,
                      heap_log |-> ps.tables.heap_log,
                      searches |-> ps.tables.searches,
                      tied |-> ps.tables.tied, late |-> ps.tables.late,
                      least |-> ps.tables.least]
    /\ calls' = calls + 1
    /\ motions' = NoMotions
    /\ UNCHANGED <<grid, obstacles, adds>>

\* MazeSolver.optimal_path_to_motion_path on the path the last
\* get_optimal_path call returned
OptimalPathToMotionPath ==
    /\ plan.called
    /\ ~plan.raised
    /\ ~motions.called
    /\ \E r \in {optimal_path_to_motion_path(motion_table, plan.path, 1,
                   [motion_path |-> << >>, obstacle_id_list |-> << >>, raised |-> FALSE])} :
          motions' = [called |-> TRUE, motion_path |-> r.motion_path,
                      obstacle_id_list |-> r.obstacle_id_list, raised |-> r.raised]
    /\ UNCHANGED <<grid, obstacles, robot, path_table, cost_table, motion_table, calls, adds, plan>>

Next ==
    \/ \E ob \in ObstacleMenu : AddObstacle(ob)
    \/ ClearObstacles
    \/ GetOptimalPath
    \/ OptimalPathToMotionPath

Spec == Init /\ [][Next]_vars

(***************************************************************************)
(* The same planner on the default 20x20 grid of MazeSolver, with the      *)
(* obstacles of the scenarios the documentation names, and on a grid that  *)
(* is larger than the default.                                             *)
(***************************************************************************)
\* the obstacles of the scenarios on the 20x20 grid
ScenarioMenu ==
    { Obstacle(10, 10, SOUTH, 1),
      Obstacle(10, 13, NORTH, 2) }

\* the size of the grid that is larger than the default
LargeSize == 22

\* the obstacles a client may add on the larger grid
LargeMenu ==
    { Obstacle(17, 10, EAST, 1),
      Obstacle(10, 17, NORTH, 2),
      Obstacle(4, 17, SOUTH, 3),
      Obstacle(4, 4, SKIP, 4) }

WideMenu == IF grid.size_x = GridClassSizeX THEN ScenarioMenu ELSE LargeMenu

\* MazeSolver.__init__ with the default size or the larger size
InitWide ==
    /\ grid \in { [size_x |-> GridClassSizeX, size_y |-> GridClassSizeY],
                  [size_x |-> LargeSize, size_y |-> LargeSize] }
    /\ obstacles = << >>
    /\ \E s \in StartMenu :
          robot = [x |-> s[1], y |-> s[2], direction |-> s[3],
                   screenshot_id |-> << >>, penalty |-> 0]
    /\ path_table = EmptyDict
    /\ cost_table = EmptyDict
    /\ motion_table = EmptyDict
    /\ calls = 0
    /\ adds = 0
    /\ plan = NoPlan
    /\ motions = NoMotions

GetOptimalPathWide == calls < MaxCallsWide /\ GetOptimalPath

NextWide ==
    \/ \E ob \in WideMenu : AddObstacle(ob)
    \/ ClearObstacles
    \/ GetOptimalPathWide
    \/ OptimalPathToMotionPath

SpecWide == InitWide /\ [][NextWide]_vars

(***************************************************************************)
(* Properties                                                              *)
(***************************************************************************)
Pose(c) == <<c.x, c.y, c.direction>>

\* the number of obstacles the option b visits
Ones(b) == Cardinality({i \in 1..Len(b) : b[i] = 1})

\* the view lists of the last planning call, with the objects it created
ViewsOf(p) == get_view_obstacle_positions(p.obstacles, p.call, 1)

\* every string _get_visit_options enumerates for n view lists
AllOptions(n) == IF n = 0 THEN {<<0>>} ELSE [1..n -> {0, 1}]

\* every choice of one slot (numbered from 0) for each of the lists of cur
Assignments(cur) ==
    {c \in [1..Len(cur) -> 0..4] : \A i \in 1..Len(cur) : c[i] < Len(cur[i])}

\* TSP distance plus the penalties of the chosen slots, read from the cost
\* table ct
TourCost(ct, start, cur, c) ==
    solve_tsp_dynamic_programming(
        cost_matrix_of(ct, <<start>> \o Concat(cur), visited_of(cur, c))).distance
      + penalty_of(cur, c)

TourCosts(ct, start, cur) == {TourCost(ct, start, cur, c) : c \in Assignments(cur)}

\* the option b admits a tour of finite cost over the cost table ct
Feasible(ct, start, views, b) ==
    \E d \in TourCosts(ct, start, cur_view_positions(views, b)) : d < BIG

\* m is the least element of the set S of numbers
IsMin(m, S) == m \in S /\ \A d \in S : m <= d

\* C1: for every consecutive pair (u, v) of the path get_optimal_path
\* returned, motion_table holds the key u->v or the key v->u, and
\* optimal_path_to_motion_path does not raise on that path
C1_MotionKnownForEveryStep ==
    /\ (plan.called /\ ~plan.raised) =>
          \A i \in 1..(Len(plan.path) - 1) :
              \/ InMotionTable(motion_table, Pose(plan.path[i]), Pose(plan.path[i + 1]))
              \/ InMotionTable(motion_table, Pose(plan.path[i + 1]), Pose(plan.path[i]))
    /\ motions.called => ~motions.raised

C1_Witness ==
    /\ motions.called /\ ~motions.raised
    /\ Len(plan.path) >= 3
    /\ Len(motions.motion_path) >= Len(plan.path)

\* C2: the memo tables are symmetric: with (a, b) also (b, a) is a key of
\* path_table and holds the same poses reversed, and cost_table holds the
\* same cost under both keys
C2_TablesSymmetric ==
    /\ DOMAIN cost_table = DOMAIN path_table
    /\ \A k \in DOMAIN path_table :
          /\ <<k[2], k[1]>> \in DOMAIN path_table
          /\ path_table[<<k[2], k[1]>>] = Reverse(path_table[k])
          /\ cost_table[<<k[2], k[1]>>] = cost_table[k]

C2_Witness ==
    \E k \in DOMAIN path_table :
        /\ Len(path_table[k]) >= 3
        /\ path_table[k] # Reverse(path_table[k])

StraightPair(u, v) ==
    /\ u.direction = v.direction
    /\ Abs(u.x - v.x) + Abs(u.y - v.y) = 1

OffsetPair(u, v) ==
    /\ u.direction = v.direction
    /\ {Abs(u.x - v.x), Abs(u.y - v.y)} = {HALF_TURNS[1], HALF_TURNS[2]}

\* the headings differ by 90 degrees
Perpendicular(d, e) ==
    \/ d \in {NORTH, SOUTH} /\ e \in {EAST, WEST}
    \/ d \in {EAST, WEST} /\ e \in {NORTH, SOUTH}

TurnPair(u, v) ==
    /\ Perpendicular(u.direction, v.direction)
    /\ {Abs(u.x - v.x), Abs(u.y - v.y)} = {TURNS[1], TURNS[2]}

\* C3: every consecutive pair of poses of the returned path, the pairs at
\* the joins of two stitched segments included, is a straight step, an
\* offset move or a quarter turn
C3_EveryStepIsAPrimitive ==
    (plan.called /\ ~plan.raised) =>
        \A i \in 1..(Len(plan.path) - 1) :
            \/ StraightPair(plan.path[i], plan.path[i + 1])
            \/ OffsetPair(plan.path[i], plan.path[i + 1])
            \/ TurnPair(plan.path[i], plan.path[i + 1])

\* a tour of two obstacles (two stitched segments) with a turn and an offset
C3_Witness ==
    /\ plan.called /\ ~plan.raised
    /\ Ones(plan.bin_pos) = 2
    /\ \E i \in 2..(Len(plan.path) - 1) :
          /\ Len(plan.path[i].screenshot_id) > 0
          /\ Len(plan.path[Len(plan.path)].screenshot_id) > 0
    /\ \E i \in 1..(Len(plan.path) - 1) : TurnPair(plan.path[i], plan.path[i + 1])
    /\ \E i \in 1..(Len(plan.path) - 1) : OffsetPair(plan.path[i], plan.path[i + 1])

OnBorder(p) == p[1] \in {0, grid.size_x - 1} \/ p[2] \in {0, grid.size_y - 1}

\* C4: no pose that a search of the planner pushed onto its heap (and so no
\* pose it popped) lies on the one-cell border of the grid
C4_HeapAvoidsBorder ==
    plan.called => \A p \in plan.heap_log : ~OnBorder(p)

\* searches that went up to the cells next to the border on every side
C4_Witness ==
    /\ plan.called
    /\ plan.searches > 0
    /\ \E p \in plan.heap_log : p[1] = 1
    /\ \E p \in plan.heap_log : p[1] = grid.size_x - 2
    /\ \E p \in plan.heap_log : p[2] = 1
    /\ \E p \in plan.heap_log : p[2] = grid.size_y - 2

\* C5: the options are tried in non-increasing order of the number of
\* obstacles they visit and the loop stops at the first option that yields a
\* tour: the returned tour is that of the last option tried, no option
\* tried before it admits a finite tour, and every option that visits more
\* obstacles than the returned one was tried and admits none
C5_LargestFeasibleSubsetFirst ==
    (plan.called /\ ~plan.raised) =>
        /\ \A i, j \in 1..Len(plan.tried) :
              i < j => Ones(plan.tried[i]) >= Ones(plan.tried[j])
        /\ Len(plan.path) > 0 =>
              /\ Len(plan.tried) > 0
              /\ plan.bin_pos = plan.tried[Len(plan.tried)]
              /\ Feasible(cost_table, StartRef(robot), ViewsOf(plan), plan.bin_pos)
        /\ \A i \in 1..(Len(plan.tried) - 1) :
              ~Feasible(cost_table, StartRef(robot), ViewsOf(plan), plan.tried[i])
        /\ \A b \in AllOptions(Len(ViewsOf(plan))) :
              Ones(b) > Ones(plan.bin_pos) =>
                  /\ \E i \in 1..Len(plan.tried) : plan.tried[i] = b
                  /\ ~Feasible(cost_table, StartRef(robot), ViewsOf(plan), b)

\* of two obstacles one is visited, after the option with both and an
\* option with one of them admitted no tour
C5_Witness ==
    /\ plan.called /\ ~plan.raised
    /\ Len(ViewsOf(plan)) = 2
    /\ Len(plan.tried) = 3
    /\ Ones(plan.bin_pos) = 1
    /\ Len(plan.path) >= 2

\* the least cost of a tour of the option b over tables of its own: the
\* planner run on b alone
SubsetBest(obs, r, views, b) ==
    try_option(obs, planner_start(r, EmptyDict, EmptyDict, EmptyDict), StartRef(r),
               cur_view_positions(views, b), b).min_dist

\* C6 as claimed: the returned cost is the least cost over the slot
\* assignments of all options that visit as many obstacles as the returned
\* tour
C6_MinOverAllSubsetsOfTheSize ==
    (plan.called /\ ~plan.raised /\ Len(plan.path) > 0) =>
        \A b \in AllOptions(Len(ViewsOf(plan))) :
            Ones(b) = Ones(plan.bin_pos) =>
                plan.cost <= SubsetBest(plan.obstacles, robot, ViewsOf(plan), b)

\* C6 as amended: the returned cost is the least cost (TSP distance plus the
\* penalties of the chosen slots) over the slot assignments of the returned
\* option, the first option that admits a finite tour
C6_MinOverTheFirstFeasibleSubset ==
    (plan.called /\ ~plan.raised /\ Len(plan.path) > 0) =>
        IsMin(plan.cost,
              TourCosts(cost_table, StartRef(robot),
                        cur_view_positions(ViewsOf(plan), plan.bin_pos)))

\* a tour kept after the best tour so far was replaced at least once, the
\* assignments of its option having different costs
C6_Witness ==
    /\ plan.called /\ ~plan.raised
    /\ Ones(plan.bin_pos) >= 1
    /\ plan.accepted >= 2
    /\ \E d \in TourCosts(cost_table, StartRef(robot),
                          cur_view_positions(ViewsOf(plan), plan.bin_pos)) :
          d > plan.cost /\ d < BIG

\* the searches of the last call reached no viewing pose from the start
NoViewReached ==
    \A i \in 1..Len(ViewsOf(plan)) : \A k \in 1..Len(ViewsOf(plan)[i]) :
        <<StartRef(robot), ViewsOf(plan)[i][k]>> \notin DOMAIN cost_table

\* C7 as claimed: when no option yields a finite tour the call returns the
\* empty list and the cost it started from
C7_EmptyListWhenNoTour ==
    (plan.called /\ ~plan.raised /\ NoViewReached) =>
        Len(plan.path) = 0 /\ plan.cost >= BIG

\* C7 as amended: the call never returns an empty list; when no viewing
\* pose is reached from the start it returns the list that holds the start
\* pose alone, with cost 0
C7_StartAloneWhenNoTour ==
    (plan.called /\ ~plan.raised) =>
        /\ Len(plan.path) >= 1
        /\ plan.cost < BIG
        /\ NoViewReached =>
              /\ Len(plan.path) = 1
              /\ Pose(plan.path[1]) = Pose(robot)
              /\ plan.cost = 0

\* an obstacle with viewing poses, none of them reached
C7_Witness ==
    /\ plan.called /\ ~plan.raised
    /\ \E i \in 1..Len(ViewsOf(plan)) : Len(ViewsOf(plan)[i]) > 0
    /\ NoViewReached
    /\ Len(plan.path) = 1

SamePoses(k1, k2) == Pose(k1[1]) = Pose(k2[1]) /\ Pose(k1[2]) = Pose(k2[2])

\* C8 as claimed: the keys compare poses, so path_table holds one entry for
\* a pair of poses
C8_OneEntryPerPosePair ==
    \A k1, k2 \in DOMAIN path_table : SamePoses(k1, k2) => k1 = k2

\* the visit states of the option b: the start, then the viewing poses of
\* the obstacles b visits
VisitStates(start, views, b) == <<start>> \o Concat(cur_view_positions(views, b))

\* the number of options among those tried for which _generate_paths asks
\* for a path from the object a to the object b
TimesAsked(tried, start, views, a, b) ==
    Cardinality({n \in 1..Len(tried) :
        \E i, j \in 1..Len(VisitStates(start, views, tried[n])) :
            /\ i < j
            /\ VisitStates(start, views, tried[n])[i] = a
            /\ VisitStates(start, views, tried[n])[j] = b})

\* the searches a call runs for the pair (a, b) when a lookup hits with
\* these very objects only: one when the path was found (later lookups
\* hit), one each time it is asked for when there is none
SearchesFor(pt, tried, start, views, a, b) ==
    IF <<a, b>> \in DOMAIN pt /\ TimesAsked(tried, start, views, a, b) > 0 THEN 1
    ELSE TimesAsked(tried, start, views, a, b)

\* the sum of SearchesFor over the pairs (all[i], all[j]), i < j, numbered
\* up to n
RECURSIVE SearchesUpTo(_, _, _, _, _, _)
SearchesUpTo(pt, tried, start, views, all, n) ==
    IF n = 0 THEN 0
    ELSE SearchesUpTo(pt, tried, start, views, all, n - 1)
         + (IF ((n - 1) \div Len(all)) < ((n - 1) % Len(all))
            THEN SearchesFor(pt, tried, start, views,
                             all[((n - 1) \div Len(all)) + 1],
                             all[((n - 1) % Len(all)) + 1])
            ELSE 0)

\* C8 as amended: the keys of the memo tables are the CellState objects
\* themselves: the viewing poses of a call are new objects, so whatever
\* the tables hold for equal poses the call runs a search for every pair of
\* its own objects, and a lookup hits only once that search has recorded a
\* path
C8_KeysAreObjects ==
    (plan.called /\ ~plan.raised) =>
        plan.searches =
            SearchesUpTo(path_table, plan.tried, StartRef(robot), ViewsOf(plan),
                         <<StartRef(robot)>> \o Concat(ViewsOf(plan)),
                         Len(<<StartRef(robot)>> \o Concat(ViewsOf(plan)))
                           * Len(<<StartRef(robot)>> \o Concat(ViewsOf(plan))))

\* the second call recorded a path under new objects although the table
\* held one for the same poses from the first call
C8_Witness ==
    /\ plan.called /\ plan.call = 2 /\ plan.searches > 0
    /\ \E k1, k2 \in DOMAIN path_table :
          /\ SamePoses(k1, k2)
          /\ k1[2].oid[1] = 1
          /\ k2[2].oid[1] = 2

\* C9 as claimed: the tables are empty whenever a get_optimal_path call
\* starts
C9_TablesEmptyAtEveryCall ==
    [][calls' # calls =>
          /\ path_table = EmptyDict
          /\ cost_table = EmptyDict
          /\ motion_table = EmptyDict]_vars

\* every entry of the table f is an entry of the table g
Within(f, g) == \A k \in DOMAIN f : k \in DOMAIN g /\ g[k] = f[k]

\* C9 as amended: the tables are created empty once, when the MazeSolver is
\* constructed, and no call removes or changes an entry of path_table or
\* cost_table or removes a key of motion_table: what one planning call
\* wrote is there when the next one starts
C9_TablesOnlyGrow ==
    [][/\ Within(path_table, path_table')
       /\ Within(cost_table, cost_table')
       /\ \A u \in DOMAIN motion_table :
             /\ u \in DOMAIN motion_table'
             /\ Within(motion_table[u], motion_table'[u])]_vars

\* a second call has been made and the paths of the first are in the table
C9_Witness ==
    /\ calls = 2
    /\ \E k \in DOMAIN path_table : k[2].oid[1] = 1
    /\ \E k \in DOMAIN path_table : k[2].oid[1] = 2

\* the tags of the poses of path from position i on, in path order
RECURSIVE TagsFrom(_, _)
TagsFrom(path, i) ==
    IF i > Len(path) THEN << >> ELSE path[i].screenshot_id \o TagsFrom(path, i + 1)

\* the motions and captures the claim describes for path from the step that
\* arrives at position i on
RECURSIVE CapturesAfterArrival(_, _, _)
CapturesAfterArrival(motion_path, path, i) ==
    IF i > Len(path) THEN motion_path = << >>
    ELSE /\ Len(motion_path) >= 1 + Len(path[i].screenshot_id)
         /\ motion_path[1] # CAPTURE
         /\ \A k \in 1..Len(path[i].screenshot_id) : motion_path[1 + k] = CAPTURE
         /\ CapturesAfterArrival(
                SubSeq(motion_path, 2 + Len(path[i].screenshot_id), Len(motion_path)),
                path, i + 1)

\* C10: one CAPTURE for every tag carried by any pose of the path, right
\* after the motion that arrives at the pose, and a parallel list as long as
\* the number of CAPTURE entries that names the obstacles of the tags in
\* visiting order
C10_OneCapturePerTag ==
    (motions.called /\ ~motions.raised) =>
        /\ Cardinality({k \in 1..Len(motions.motion_path) :
                            motions.motion_path[k] = CAPTURE})
              = Len(TagsFrom(plan.path, 1))
        /\ CapturesAfterArrival(motions.motion_path, plan.path, 2)
        /\ Len(motions.obstacle_id_list) = Len(TagsFrom(plan.path, 1))
        /\ \A k \in 1..Len(motions.obstacle_id_list) :
              motions.obstacle_id_list[k][1] = TagsFrom(plan.path, 1)[k][1]

(***************************************************************************)
(* C11                                                                     *)
(***************************************************************************)
\* the poses of the interior of the grid, which are the nodes of the search
InteriorPoses ==
    {p \in (1..(grid.size_x - 2)) \X (1..(grid.size_y - 2)) \X {NORTH, SOUTH, EAST, WEST} :
        is_valid_coord(p[1], p[2])}

\* _get_neighboring_states, called for the pose u on a grid with the
\* obstacles obs, offers the pose v with the motion m
Offers(obs, u, v, m) ==
    \E k \in 1..Len(get_neighboring_states(obs, u[1], u[2], u[3])) :
        /\ get_neighboring_states(obs, u[1], u[2], u[3])[k][1] = v[1]
        /\ get_neighboring_states(obs, u[1], u[2], u[3])[k][2] = v[2]
        /\ get_neighboring_states(obs, u[1], u[2], u[3])[k][3] = v[3]
        /\ get_neighboring_states(obs, u[1], u[2], u[3])[k][5] = m

\* every move in the list nbs that the enumeration made for u has its
\* inverse in the enumeration for the pose it leads to
InverseOffered(u, nbs) ==
    \A k \in 1..Len(nbs) :
        /\ opposite_motion(nbs[k][5]) = 10 - nbs[k][5]
        /\ Offers(<< >>, <<nbs[k][1], nbs[k][2], nbs[k][3]>>, u, opposite_motion(nbs[k][5]))

\* obstacles aside, the primitive table is closed under inversion
InversionClosed ==
    \A u \in InteriorPoses :
        InverseOffered(u, get_neighboring_states(<< >>, u[1], u[2], u[3]))

\* the drive primitives of a motion path, the CAPTURE entries left out
Drives(motion_path) == SelectSeq(motion_path, LAMBDA m : m # CAPTURE)

\* the steps of path whose motion optimal_path_to_motion_path reads under
\* the reverse key of the motion table mt
ReverseKeySteps(mt, path) ==
    {i \in 1..(Len(path) - 1) : InMotionTable(mt, Pose(path[i + 1]), Pose(path[i]))}

\* C11: obstacles aside, whenever the neighbour enumeration for a pose u of
\* the grid offers a pose v with the motion m, the enumeration for v offers
\* u with opposite_motion(m), which is 10 - m; and every motion that
\* optimal_path_to_motion_path gives for a step of the returned path, the
\* steps read under the reverse key included, is the primitive that the
\* enumeration gives for the move from the first pose of the step to the
\* second.  The closure does not depend on the obstacles or the tables and
\* is examined in the state the constructor leaves.
C11_InverseIsTheMove ==
    /\ (adds = 0 /\ calls = 0) => InversionClosed
    /\ (motions.called /\ ~motions.raised) =>
          /\ Len(Drives(motions.motion_path)) = Len(plan.path) - 1
          /\ \A i \in 1..(Len(plan.path) - 1) :
                Offers(<< >>, Pose(plan.path[i]), Pose(plan.path[i + 1]),
                       Drives(motions.motion_path)[i])

\* a motion path was made for a path with a step that is read under the
\* reverse key, and that step is a turn or an offset
C11_Witness ==
    /\ motions.called
    /\ ~motions.raised
    /\ \E i \in ReverseKeySteps(motion_table, plan.path) :
          Drives(motions.motion_path)[i] \notin {FORWARD, REVERSE}

(***************************************************************************)
(* C12                                                                     *)
(***************************************************************************)
\* the obstacle ids of the view lists the accepted option visits
ChosenIds(p) ==
    IF p.accepted = 0 THEN {}
    ELSE {cur_view_positions(ViewsOf(p), p.bin_pos)[i][1].screenshot_id :
            i \in 1..Len(cur_view_positions(ViewsOf(p), p.bin_pos))}

\* how many tags of the sequence tags name the obstacle id
TimesTagged(tags, id) == Cardinality({k \in 1..Len(tags) : tags[k][1] = id})

\* C12: in the path get_optimal_path returns, the tags of all poses name
\* every obstacle of the chosen subset exactly once and no other obstacle
\* (so no tag of a superseded assignment is left in it)
C12_EachChosenObstacleTaggedOnce ==
    (plan.called /\ ~plan.raised) =>
        /\ \A k \in 1..Len(TagsFrom(plan.path, 1)) :
              TagsFrom(plan.path, 1)[k][1] \in ChosenIds(plan)
        /\ \A id \in ChosenIds(plan) : TimesTagged(TagsFrom(plan.path, 1), id) = 1

(***************************************************************************)
(* C13                                                                     *)
(***************************************************************************)
\* the grid is the default 20x20 grid
DefaultGrid == grid = [size_x |-> GridClassSizeX, size_y |-> GridClassSizeY]

\* the poses of a list of CellState objects
PosesOf(cells) == [k \in 1..Len(cells) |-> Pose(cells[k])]

\* the last call planned, on the default grid and without raising, for
\* exactly the obstacles obs
Planned(obs) == DefaultGrid /\ plan.called /\ ~plan.raised /\ plan.obstacles = obs

\* some pose of path is one of the poses of the set S
Visits(path, S) == \E k \in 1..Len(path) : Pose(path[k]) \in S

\* C13 as stated: with the single obstacle (10,10,S,1) the path visits a
\* pose facing N at (10,12), (9,14), (11,14), (10,13) or (10,14) and
\* carries exactly one tag, which ends in _C
C13_VisitsARowAboveTheObstacle ==
    Planned(<<Obstacle(10, 10, SOUTH, 1)>>) =>
        /\ Visits(plan.path, {<<10, 12, NORTH>>, <<9, 14, NORTH>>, <<11, 14, NORTH>>,
                              <<10, 13, NORTH>>, <<10, 14, NORTH>>})
        /\ Len(TagsFrom(plan.path, 1)) = 1
        /\ TagsFrom(plan.path, 1)[1][2] = "C"

\* C13 amended: the viewing poses of the obstacle (10,10,S,1) lie on the
\* rows below it, (11,6), (9,6), (10,7) and (10,6) facing N ((10,8) is
\* inside the obstacle's clearance), and the path returned from (1,1,N)
\* ends at one of them, (10,6,N), with cost 58 and carries exactly one tag,
\* 1_C, on that last pose
C13_VisitsARowBelowTheObstacle ==
    /\ (DefaultGrid /\ obstacles = <<Obstacle(10, 10, SOUTH, 1)>>) =>
          PosesOf(get_view_obstacle_positions(obstacles, 1, 1)[1])
            = << <<11, 6, NORTH>>, <<9, 6, NORTH>>, <<10, 7, NORTH>>, <<10, 6, NORTH>> >>
    /\ Planned(<<Obstacle(10, 10, SOUTH, 1)>>) =>
          /\ Len(plan.path) > 1
          /\ Pose(plan.path[Len(plan.path)]) = <<10, 6, NORTH>>
          /\ plan.cost = 58
          /\ TagsFrom(plan.path, 1) = << <<1, "C">> >>
          /\ plan.path[Len(plan.path)].screenshot_id = << <<1, "C">> >>

\* the scenario was planned and returned a path that leaves the start
C13_Witness ==
    /\ Planned(<<Obstacle(10, 10, SOUTH, 1)>>)
    /\ Len(plan.path) > 1
    /\ Pose(plan.path[1]) = <<1, 1, NORTH>>

(***************************************************************************)
(* C14                                                                     *)
(***************************************************************************)
\* the two obstacles of the scenario, in the order the scenario lists them
\* and in the other order
FacingPair == <<Obstacle(10, 10, SOUTH, 1), Obstacle(10, 13, NORTH, 2)>>
FacingPairSwapped == <<Obstacle(10, 13, NORTH, 2), Obstacle(10, 10, SOUTH, 1)>>

\* the obstacle ids the tags of path name
TaggedIds(path) == {TagsFrom(path, 1)[k][1] : k \in 1..Len(TagsFrom(path, 1))}

\* C14 as stated: with the obstacles (10,10,S,1) and (10,13,N,2) the
\* returned tour visits exactly one of the two obstacles
C14_VisitsOneOfTheFacingPair ==
    (Planned(FacingPair) \/ Planned(FacingPairSwapped)) =>
        /\ Cardinality(TaggedIds(plan.path)) = 1
        /\ Ones(plan.bin_pos) = 1

\* C14 amended: the viewing poses of the two obstacles do not collide, each
\* obstacle is viewed from the side away from the other ((11,6), (9,6),
\* (10,7), (10,6) facing N and (9,17), (11,17), (10,16), (10,17) facing S),
\* and the returned tour visits both: it carries the tag 1_C at (10,6,N)
\* and then the tag 2_C at its last pose (10,17,S), with cost 152 when the
\* obstacles were added in the listed order and 127 in the other order
C14_VisitsBothOfTheFacingPair ==
    /\ (DefaultGrid /\ obstacles = FacingPair) =>
          /\ Len(get_view_obstacle_positions(obstacles, 1, 1)) = 2
          /\ PosesOf(get_view_obstacle_positions(obstacles, 1, 1)[1])
                = << <<11, 6, NORTH>>, <<9, 6, NORTH>>, <<10, 7, NORTH>>, <<10, 6, NORTH>> >>
          /\ PosesOf(get_view_obstacle_positions(obstacles, 1, 1)[2])
                = << <<9, 17, SOUTH>>, <<11, 17, SOUTH>>, <<10, 16, SOUTH>>, <<10, 17, SOUTH>> >>
    /\ (Planned(FacingPair) \/ Planned(FacingPairSwapped)) =>
          /\ plan.bin_pos = <<1, 1>>
          /\ TagsFrom(plan.path, 1) = << <<1, "C">>, <<2, "C">> >>
          /\ \E k \in 1..Len(plan.path) :
                /\ Pose(plan.path[k]) = <<10, 6, NORTH>>
                /\ plan.path[k].screenshot_id = << <<1, "C">> >>
          /\ Pose(plan.path[Len(plan.path)]) = <<10, 17, SOUTH>>
          /\ plan.path[Len(plan.path)].screenshot_id = << <<2, "C">> >>
          /\ plan.cost = IF plan.obstacles = FacingPair THEN 152 ELSE 127

\* the scenario was planned with the obstacles in the listed order and a
\* tour was returned
C14_Witness ==
    /\ Planned(FacingPair)
    /\ Len(plan.path) > 1
    /\ plan.accepted > 0

(***************************************************************************)
(* C15                                                                     *)
(***************************************************************************)
\* the CellState objects of the slots the returned tour of the plan p uses
ChosenSlots(p) ==
    IF p.accepted = 0 THEN {}
    ELSE {cur_view_positions(ViewsOf(p), p.bin_pos)[idx][p.combination[idx] + 1].oid :
            idx \in 1..Len(p.combination)}

\* the view lists with the penalty of the slot oid larger by TOO_CLOSE_COST
BumpedViews(views, oid) ==
    [i \in 1..Len(views) |->
        [k \in 1..Len(views[i]) |->
            IF views[i][k].oid = oid
            THEN [views[i][k] EXCEPT !.penalty = @ + TOO_CLOSE_COST]
            ELSE views[i][k]]]

\* a planning run of a new solver (empty tables, untagged start) for the
\* obstacles obs from the start of r, over the view lists views
SecondRun(obs, r, views) ==
    with_views(obs, [r EXCEPT !.screenshot_id = << >>],
               EmptyDict, EmptyDict, EmptyDict, views)

\* C15: when the first planning call of a solver returns a tour, a second
\* run on the same grid, start and obstacles, in which the penalty of one
\* slot that the first tour uses is larger by TOO_CLOSE_COST (50) and
\* nothing else differs, returns a cost that is not smaller
C15_CostMonotonicInPenalty ==
    [][(calls = 0 /\ calls' = 1 /\ ~plan'.raised) =>
          \A oid \in ChosenSlots(plan') :
              \/ SecondRun(obstacles, robot, BumpedViews(ViewsOf(plan'), oid)).raised
              \/ SecondRun(obstacles, robot, BumpedViews(ViewsOf(plan'), oid)).min_dist
                    >= plan'.cost]_vars

\* a first call returned a tour, and the second run with the larger penalty
\* on one of its slots returns a strictly larger cost
C15_Witness ==
    /\ plan.called
    /\ plan.call = 1
    /\ ~plan.raised
    /\ \E oid \in ChosenSlots(plan) :
          /\ ~SecondRun(plan.obstacles, robot, BumpedViews(ViewsOf(plan), oid)).raised
          /\ SecondRun(plan.obstacles, robot, BumpedViews(ViewsOf(plan), oid)).min_dist
                > plan.cost

(***************************************************************************)
(* C16                                                                     *)
(***************************************************************************)
\* the cost _astar_search charges for the move from the pose u to the pose
\* v, motion cost plus proximity (lines 296-297)
EdgeCost(obs, u, v) ==
    LET nbs == get_neighboring_states(obs, u[1], u[2], u[3])
        k == CHOOSE k \in 1..Len(nbs) : <<nbs[k][1], nbs[k][2], nbs[k][3]>> = v
    IN movement_cost(u[3], nbs[k][3], nbs[k][4], nbs[k][5])

\* the total of the edge costs of a sequence of poses, from position i on
RECURSIVE PathCost(_, _, _)
PathCost(obs, path, i) ==
    IF i >= Len(path) THEN 0
    ELSE EdgeCost(obs, path[i], path[i + 1]) + PathCost(obs, path, i + 1)

\* the keys of the table under which the last planning call stored the
\* result of a search from the first state of the key to the second
\* (_generate_paths searches from the earlier visit state to the later)
SearchedKeys(p, table) ==
    {k \in DOMAIN table :
        /\ k[2].oid[1] = p.call
        /\ \/ k[1].oid = <<0, 0, 0>>
           \/ k[1].oid[2] < k[2].oid[2]
           \/ (k[1].oid[2] = k[2].oid[2] /\ k[1].oid[3] < k[2].oid[3])}

\* the sequence of primitive moves that _astar_search itself finds from
\* start to the pose of end when the pose carries no screenshot penalty
MovesToPose(obs, start, end) ==
    LET goal == [end EXCEPT !.penalty = 0]
        s == AstarLoop(obs, AstarStart(start, goal, EmptyDict), goal)
    IN IF s.status = "found"
       THEN Reverse(ParentWalk(s.parent_dict, <<end.x, end.y, end.direction>>))
       ELSE << >>

\* C16: for every pair (start, end) for which _astar_search recorded a
\* path, no sequence of primitive moves from start to end has a smaller
\* total of edge costs than the recorded path; in particular not the
\* sequence the same search finds to the same pose without the penalty
C16_RecordedPathIsShortest ==
    (plan.called /\ ~plan.raised) =>
        \A k \in SearchedKeys(plan, path_table) :
            Len(MovesToPose(plan.obstacles, k[1], k[2])) > 0 =>
                PathCost(plan.obstacles, path_table[k], 1)
                  <= PathCost(plan.obstacles, MovesToPose(plan.obstacles, k[1], k[2]), 1)

(***************************************************************************)
(* C17                                                                     *)
(***************************************************************************)
\* the obstacle at (ox, oy) is in the column (facing N or S) or row (facing
\* E or W) of the robot at (x, y) and strictly ahead of it
StraightAhead(x, y, direction, ox, oy) ==
    \/ direction = NORTH /\ ox = x /\ oy > y
    \/ direction = SOUTH /\ ox = x /\ oy < y
    \/ direction = EAST /\ oy = y /\ ox > x
    \/ direction = WEST /\ oy = y /\ ox < x

\* the side label for an obstacle that is not straight ahead
SideLabel(x, y, direction, ox, oy) ==
    CASE direction = NORTH -> (IF ox < x THEN "L" ELSE "R")
      [] direction = SOUTH -> (IF ox < x THEN "R" ELSE "L")
      [] direction = EAST -> (IF oy < y THEN "R" ELSE "L")
      [] direction = WEST -> (IF oy < y THEN "L" ELSE "R")

\* every cell of the grid
Cells == (0..(grid.size_x - 1)) \X (0..(grid.size_y - 1))

\* the label rule over every robot pose and obstacle cell of the grid
LabelRule ==
    \A c \in Cells, o \in Cells, direction \in {NORTH, SOUTH, EAST, WEST} :
        get_capture_relative_position(c[1], c[2], direction, o[1], o[2])
          = IF StraightAhead(c[1], c[2], direction, o[1], o[2]) THEN "C"
            ELSE SideLabel(c[1], c[2], direction, o[1], o[2])

\* every tag of the pose c names an obstacle of obs and carries the label of
\* the rule for the pose c and the obstacle found by the id
TagsFollowRule(obs, c) ==
    \A k \in 1..Len(c.screenshot_id) :
        /\ find_obstacle_by_id(obs, c.screenshot_id[k][1], 1) > 0
        /\ c.screenshot_id[k][2]
              = IF StraightAhead(c.x, c.y, c.direction,
                                 obs[find_obstacle_by_id(obs, c.screenshot_id[k][1], 1)].x,
                                 obs[find_obstacle_by_id(obs, c.screenshot_id[k][1], 1)].y)
                THEN "C"
                ELSE SideLabel(c.x, c.y, c.direction,
                               obs[find_obstacle_by_id(obs, c.screenshot_id[k][1], 1)].x,
                               obs[find_obstacle_by_id(obs, c.screenshot_id[k][1], 1)].y)

\* C17: _get_capture_relative_position returns C exactly when the obstacle
\* is in the robot's column (facing N or S) or row (facing E or W) and
\* strictly ahead; otherwise, facing N: L if ox < rx else R; S: R if ox < rx
\* else L; E: R if oy < ry else L; W: L if oy < ry else R; and every tag
\* that a planning call appends to an arrival pose is the pair (obstacle id,
\* label) for that pose and the obstacle found by the id.  The tags a call
\* appends are all tags of the poses it creates (every pose after the first)
\* and, in the first call of a solver, also those of the start state.  The
\* rule is a pure function and is examined, over every pose and obstacle
\* cell, in the state the constructor leaves.
C17_LabelRuleAndTagFormat ==
    /\ (adds = 0 /\ calls = 0) => LabelRule
    /\ (plan.called /\ ~plan.raised) =>
          \A k \in 1..Len(plan.path) :
              (k > 1 \/ plan.call = 1) => TagsFollowRule(plan.obstacles, plan.path[k])

\* a returned path carries a tag for an obstacle seen to one side and a tag
\* for an obstacle seen straight ahead
C17_Witness ==
    /\ plan.called
    /\ ~plan.raised
    /\ \E k \in 1..Len(TagsFrom(plan.path, 1)) : TagsFrom(plan.path, 1)[k][2] = "C"
    /\ \E k \in 1..Len(TagsFrom(plan.path, 1)) : TagsFrom(plan.path, 1)[k][2] \in {"L", "R"}

(***************************************************************************)
(* C18                                                                     *)
(***************************************************************************)
\* one step ahead of an obstacle that faces f, and one step to its side
AheadOf(f) ==
    CASE f = NORTH -> <<0, 1>> [] f = SOUTH -> <<0, -1>>
      [] f = EAST -> <<1, 0>> [] f = WEST -> <<-1, 0>>
SideOf(f) == IF f \in {NORTH, SOUTH} THEN <<1, 0>> ELSE <<0, 1>>

\* the heading opposite to f
OppositeOf(f) ==
    CASE f = NORTH -> SOUTH [] f = SOUTH -> NORTH [] f = EAST -> WEST [] f = WEST -> EAST

\* the slot of the obstacle ob that lies a cells ahead and l cells to the
\* side, with its penalty
Slot(ob, a, l, penalty) ==
    <<ob.x + a * AheadOf(ob.direction)[1] + l * SideOf(ob.direction)[1],
      ob.y + a * AheadOf(ob.direction)[2] + l * SideOf(ob.direction)[2],
      OppositeOf(ob.direction), penalty>>

\* the five slots of an obstacle and their penalties, in slot order
SlotSteps ==
    << <<2, TOO_CLOSE_COST>>, <<4, SCREENSHOT_COST>>, <<4, SCREENSHOT_COST>>,
       <<3, TOO_CLOSE_COST \div 2>>, <<4, 0>> >>

\* the slots of ob that are on the grid and reachable
OpenSlots(obs, ob) ==
    {sl \in {Slot(ob, 2, 0, TOO_CLOSE_COST), Slot(ob, 4, -1, SCREENSHOT_COST),
             Slot(ob, 4, 1, SCREENSHOT_COST), Slot(ob, 3, 0, TOO_CLOSE_COST \div 2),
             Slot(ob, 4, 0, 0)} :
        /\ sl[1] \in 0..(grid.size_x - 1)
        /\ sl[2] \in 0..(grid.size_y - 1)
        /\ reachable(obs, sl[1], sl[2])}

\* the positions of the obstacles of obs that do not face SKIP
Facing(obs) == SelectSeq([i \in 1..Len(obs) |-> i], LAMBDA i : obs[i].direction # SKIP)

\* the candidates of the list cells, as (x, y, heading, penalty)
Candidates(cells) == {<<cells[k].x, cells[k].y, cells[k].direction, cells[k].penalty>> :
                        k \in 1..Len(cells)}

\* the list cells keeps the slot order: its distances ahead of the obstacle
\* and penalties are a selection, in order, of those of the five slots
RECURSIVE InSlotOrder(_, _, _, _)
InSlotOrder(ob, cells, k, n) ==
    IF k > Len(cells) THEN TRUE
    ELSE IF n > Len(SlotSteps) THEN FALSE
    ELSE IF /\ cells[k].penalty = SlotSteps[n][2]
            /\ Abs(cells[k].x - ob.x) * Abs(AheadOf(ob.direction)[1])
                 + Abs(cells[k].y - ob.y) * Abs(AheadOf(ob.direction)[2]) = SlotSteps[n][1]
    THEN InSlotOrder(ob, cells, k + 1, n + 1)
    ELSE InSlotOrder(ob, cells, k, n + 1)

\* C18: for every grid size, larger than 20x20 included, there is one
\* candidate list for every obstacle that does not face SKIP and none for
\* one that does, and the list of an obstacle holds exactly those of its
\* five slots (ahead by 2, penalty 50; to either side by 1 and ahead by 4,
\* penalty 100; ahead by 3, penalty 25; ahead by 4, penalty 0) that are on
\* the grid and reachable, in slot order, each with the heading opposite to
\* the obstacle's
C18_ViewsAreTheOpenSlots ==
    /\ Len(get_view_obstacle_positions(obstacles, 1, 1)) = Len(Facing(obstacles))
    /\ \A n \in 1..Len(Facing(obstacles)) :
          /\ Candidates(get_view_obstacle_positions(obstacles, 1, 1)[n])
                = OpenSlots(obstacles, obstacles[Facing(obstacles)[n]])
          /\ Len(get_view_obstacle_positions(obstacles, 1, 1)[n])
                = Cardinality(OpenSlots(obstacles, obstacles[Facing(obstacles)[n]]))
          /\ InSlotOrder(obstacles[Facing(obstacles)[n]],
                         get_view_obstacle_positions(obstacles, 1, 1)[n], 1, 1)

(***************************************************************************)
(* C19                                                                     *)
(***************************************************************************)
\* C19: the g value of the goal, which is the cost written to cost_table
\* when the goal is popped, is the sum of motion cost plus proximity over
\* the edges of the recorded path; the screenshot penalty of the end pose
\* is no part of it
C19_CostIsTheSumOfEdgeCosts ==
    (plan.called /\ ~plan.raised) =>
        \A k \in SearchedKeys(plan, cost_table) :
            cost_table[k] = PathCost(plan.obstacles, path_table[k], 1)

(***************************************************************************)
(* C20                                                                     *)
(***************************************************************************)
\* C20 as stated: of two heap entries of equal priority f the one pushed
\* first is popped first, so no pop of any search takes an entry while
\* another entry of the same f that was pushed earlier is in the heap
C20_TiesPopInPushOrder ==
    plan.called => plan.late = 0

\* C20 amended: the heap entries are the tuples (f, x, y, direction) and
\* every pop takes the least tuple, so entries of equal f are popped by
\* smaller x, then smaller y, then smaller direction value; the order of
\* insertion plays no part
C20_TiesPopInTupleOrder ==
    plan.called => plan.least

\* searches of a planning call popped entries that were tied on f, and some
\* of these pops took an entry pushed later than a tied entry left behind
C20_Witness ==
    /\ plan.called
    /\ plan.tied > 0
    /\ plan.late > 0

(***************************************************************************)
(* C21                                                                     *)
(***************************************************************************)
\* n candidate lists of w slots each; _generate_combinations reads nothing
\* of a list but its length
UniformLists(n, w) == [i \in 1..n |-> [k \in 1..w |-> k]]

\* C21: for any list of candidate lists, _generate_combinations called
\* with (view_positions, 0, [], [], ITERATIONS) returns at most ITERATIONS
\* = 2000 slot assignments.  The function is pure and is examined in the
\* state the constructor leaves, for up to MaxLists lists of up to MaxSlots
\* slots.
C21_AtMostIterationsAssignments ==
    (adds = 0 /\ calls = 0) =>
        \A n \in 0..MaxLists, w \in 1..MaxSlots :
            Len(generate_combinations(UniformLists(n, w), 0, << >>, << >>, ITERATIONS))
              <= ITERATIONS

(***************************************************************************)
(* C22                                                                     *)
(***************************************************************************)
\* one cell along the heading d
Vec(d) ==
    CASE d = NORTH -> <<0, 1>> [] d = SOUTH -> <<0, -1>>
      [] d = EAST -> <<1, 0>> [] d = WEST -> <<-1, 0>>

\* the pose a cells along the heading d and b cells along the heading md
\* from the pose u, with heading md
Displaced(u, a, d, b, md) ==
    <<u[1] + a * Vec(d)[1] + b * Vec(md)[1],
      u[2] + a * Vec(d)[2] + b * Vec(md)[2], md>>

\* the 8 pairs of perpendicular headings
TurnPairs ==
    {p \in {NORTH, SOUTH, EAST, WEST} \X {NORTH, SOUTH, EAST, WEST} :
        Perpendicular(p[1], p[2])}

ForwardTurns == {FORWARD_LEFT_TURN, FORWARD_RIGHT_TURN}
ReverseTurns == {REVERSE_LEFT_TURN, REVERSE_RIGHT_TURN}

\* every turn that the enumeration offers from an interior pose of the
\* empty grid ends along cells along the old heading and across cells
\* along the new one when it is a forward turn, and 5 cells against the old
\* heading and 3 against the new one when it is a reverse turn
TurnsEnd(along, across) ==
    \A u \in InteriorPoses :
        \A k \in 1..Len(get_neighboring_states(<< >>, u[1], u[2], u[3])) :
            LET nb == get_neighboring_states(<< >>, u[1], u[2], u[3])[k]
            IN /\ nb[5] \in ForwardTurns =>
                     <<nb[1], nb[2], nb[3]>> = Displaced(u, along, u[3], across, nb[3])
               /\ nb[5] \in ReverseTurns =>
                     <<nb[1], nb[2], nb[3]>>
                        = Displaced(u, -TURNS[1], u[3], -TURNS[2], nb[3])

\* for each of the 8 pairs some interior pose is offered the forward turn
\* and some interior pose the reverse turn
TurnsOffered ==
    \A p \in TurnPairs :
        /\ \E u \in InteriorPoses, m \in ForwardTurns :
              u[3] = p[1] /\ Offers(<< >>, u, Displaced(u, TURNS[2], p[1], TURNS[1], p[2]), m)
        /\ \E u \in InteriorPoses, m \in ReverseTurns :
              u[3] = p[1] /\ Offers(<< >>, u, Displaced(u, -TURNS[1], p[1], -TURNS[2], p[2]), m)

\* C22 as stated: the forward turn from (x, y, d) to the heading md ends 5
\* cells along d and 3 cells along md, the reverse turn 3 cells against md
\* and 5 cells against d
C22_ForwardTurnFiveAlongOldHeading ==
    (adds = 0 /\ calls = 0) => TurnsEnd(TURNS[1], TURNS[2])

\* C22 amended: for each of the 8 perpendicular pairs (d, md) the forward
\* turn from (x, y, d) ends 3 cells along d and 5 cells along md with
\* heading md, and the reverse turn ends 3 cells against md and 5 cells
\* against d with heading md; the turning steps of every returned path have
\* these displacements.  The geometry is examined on the empty grid in the
\* state the constructor leaves.
C22_ForwardTurnFiveAlongNewHeading ==
    /\ (adds = 0 /\ calls = 0) => (TurnsEnd(TURNS[2], TURNS[1]) /\ TurnsOffered)
    /\ (motions.called /\ ~motions.raised) =>
          \A i \in 1..(Len(plan.path) - 1) :
              /\ Drives(motions.motion_path)[i] \in ForwardTurns =>
                    Pose(plan.path[i + 1])
                      = Displaced(Pose(plan.path[i]), TURNS[2], plan.path[i].direction,
                                  TURNS[1], plan.path[i + 1].direction)
              /\ Drives(motions.motion_path)[i] \in ReverseTurns =>
                    Pose(plan.path[i + 1])
                      = Displaced(Pose(plan.path[i]), -TURNS[1], plan.path[i].direction,
                                  -TURNS[2], plan.path[i + 1].direction)

\* a motion path was made that holds a forward turn and a reverse turn
C22_Witness ==
    /\ motions.called
    /\ ~motions.raised
    /\ \E i \in 1..Len(motions.motion_path) : motions.motion_path[i] \in ForwardTurns
    /\ \E i \in 1..Len(motions.motion_path) : motions.motion_path[i] \in ReverseTurns

(***************************************************************************)
(* C23                                                                     *)
(***************************************************************************)
\* the headings d and e are opposite
HalfTurn(d, e) ==
    <<d, e>> \in {<<NORTH, SOUTH>>, <<SOUTH, NORTH>>, <<EAST, WEST>>, <<WEST, EAST>>}

\* no neighbour the enumeration returns for an interior pose of the empty
\* grid (obstacles only take neighbours away) has the opposite heading, and
\* rotation_cost is defined for the pair of headings
NoHalfTurnOffered ==
    \A u \in InteriorPoses :
        \A k \in 1..Len(get_neighboring_states(<< >>, u[1], u[2], u[3])) :
            /\ ~HalfTurn(u[3], get_neighboring_states(<< >>, u[1], u[2], u[3])[k][3])
            /\ rotation_cost(u[3], get_neighboring_states(<< >>, u[1], u[2], u[3])[k][3])
                  # Raise

\* C23: _get_neighboring_states never returns a neighbour whose heading is
\* opposite to the current heading, so no _astar_search of a planning call
\* ends with the ValueError of Direction.rotation_cost.  The enumeration is
\* examined in the state the constructor leaves.
C23_NoHalfTurnNoRotationError ==
    /\ (adds = 0 /\ calls = 0) => NoHalfTurnOffered
    /\ plan.called => ~plan.search_raised

\* a planning call ran searches and returned a path on which the heading
\* changes
C23_Witness ==
    /\ plan.called
    /\ plan.searches > 0
    /\ \E i \in 1..(Len(plan.path) - 1) :
          plan.path[i].direction # plan.path[i + 1].direction

(***************************************************************************)
(* C24                                                                     *)
(***************************************************************************)
\* the pairs (start, end) whose search in the last planning call emptied
\* the heap without popping the goal
Exhausted == IF plan.called THEN plan.exhausted ELSE {}

\* the matrix of lines 119-138 and the matrix handed to the TSP solver differ
\* in column 0 only
ColumnZeroOnly(visit_states, visited) ==
    \A i, j \in 1..Len(visited) :
        cost_matrix_of(cost_table, visit_states, visited)[i][j] =
            IF j = 1 THEN 0
            ELSE cost_matrix_filled(cost_table, visit_states, visited)[i][j]

\* C24: when _astar_search(start, end) empties the heap without popping the
\* goal, neither path_table nor cost_table has an entry for (start, end) or
\* (end, start), and the loop of get_optimal_path that fills the cost matrix
\* (lines 121-138) gives the pair 1e9 in both directions.
C24_ExhaustedSearchLeavesNoEntry ==
    \A k \in Exhausted :
        /\ <<k[1], k[2]>> \notin DOMAIN path_table
        /\ <<k[2], k[1]>> \notin DOMAIN path_table
        /\ <<k[1], k[2]>> \notin DOMAIN cost_table
        /\ <<k[2], k[1]>> \notin DOMAIN cost_table
        /\ cost_matrix_filled(cost_table, <<StartRef(robot), k[1], k[2]>>, <<0, 1, 2>>)[2][3] = BIG
        /\ cost_matrix_filled(cost_table, <<StartRef(robot), k[1], k[2]>>, <<0, 1, 2>>)[3][2] = BIG
        /\ ColumnZeroOnly(<<StartRef(robot), k[1], k[2]>>, <<0, 1, 2>>)

\* a planning call in which a search emptied the heap, one of them from the
\* start state, and another search recorded a path
C24_Witness ==
    /\ plan.called
    /\ \E k \in plan.exhausted : k[1] = StartRef(robot)
    /\ SearchedKeys(plan, path_table) # {}

(***************************************************************************)
(* C25                                                                     *)
(***************************************************************************)
\* the heuristic drops by more than the cost of the edge along some edge the
\* enumeration offers from u on a grid with the obstacles obs, for the goal
\* cell (gx, gy)
Overestimates(obs, u, gx, gy) ==
    \E nbs \in {get_neighboring_states(obs, u[1], u[2], u[3])} :
        \E k \in 1..Len(nbs) :
            estimate_distance(u[1], u[2], gx, gy)
              > movement_cost(u[3], nbs[k][3], nbs[k][4], nbs[k][5])
                  + estimate_distance(nbs[k][1], nbs[k][2], gx, gy)

\* some offered edge costs exactly what the heuristic drops along it
Tight(obs, u, gx, gy) ==
    \E nbs \in {get_neighboring_states(obs, u[1], u[2], u[3])} :
        \E k \in 1..Len(nbs) :
            estimate_distance(u[1], u[2], gx, gy)
              = movement_cost(u[3], nbs[k][3], nbs[k][4], nbs[k][5])
                  + estimate_distance(nbs[k][1], nbs[k][2], gx, gy)

\* C25 as stated: there are a goal and an edge u -> v offered by the
\* neighbour enumeration with h(u) > (motion_cost + proximity) + h(v).  The
\* edges depend on the grid and the obstacles only; they are examined in the
\* states before the first planning call.
C25_HeuristicOverestimatesAnEdge ==
    calls = 0 =>
        \E u \in InteriorPoses : \E gx \in 0..(grid.size_x - 1), gy \in 0..(grid.size_y - 1) :
            Overestimates(obstacles, u, gx, gy)

\* C25 amended: the Manhattan heuristic is consistent with the edge cost:
\* for every goal cell and every edge u -> v offered by the neighbour
\* enumeration, h(u) <= (motion_cost + proximity) + h(v).
C25_HeuristicConsistent ==
    calls = 0 =>
        \A u \in InteriorPoses : \A gx \in 0..(grid.size_x - 1), gy \in 0..(grid.size_y - 1) :
            ~Overestimates(obstacles, u, gx, gy)

\* two obstacles are on the grid, an edge is offered whose cost equals the
\* drop of the heuristic, and an edge is offered that carries the proximity
\* cost
C25_Witness ==
    /\ calls = 0
    /\ Len(obstacles) = 2
    /\ \E u \in InteriorPoses : \E gx \in 0..(grid.size_x - 1), gy \in 0..(grid.size_y - 1) :
          Tight(obstacles, u, gx, gy)
    /\ \E u \in InteriorPoses :
          \E nbs \in {get_neighboring_states(obstacles, u[1], u[2], u[3])} :
              \E k \in 1..Len(nbs) : nbs[k][4] >= SAFE_COST

(***************************************************************************)
(* C26                                                                     *)
(***************************************************************************)
\* the searches of the last planning call that recorded a path between two
\* states of different poses
RecordedApart ==
    {k \in SearchedKeys(plan, path_table) :
        ~is_eq(k[2], k[1].x, k[1].y, k[1].direction)}

\* every consecutive pair of the sequence of poses is an edge the
\* enumeration offers
EdgesOffered(obs, path) ==
    \A i \in 1..(Len(path) - 1) :
        \E m \in FORWARD_LEFT_TURN..REVERSE_LEFT_TURN : Offers(obs, path[i], path[i + 1], m)

\* C26: the path recorded for (start, end), start and end differing in
\* pose, begins at the pose of start and ends at the pose of end, every
\* consecutive pair in it is an edge offered by _get_neighboring_states, and
\* cost_table[(start, end)] is the sum of the costs of exactly these edges
\* plus end.penalty, also when the g value of the goal was overwritten.
C26_RecordedCostIsEdgeSumPlusPenalty ==
    (plan.called /\ ~plan.raised) =>
        \A k \in RecordedApart :
            /\ Len(path_table[k]) >= 2
            /\ path_table[k][1] = <<k[1].x, k[1].y, k[1].direction>>
            /\ path_table[k][Len(path_table[k])] = <<k[2].x, k[2].y, k[2].direction>>
            /\ EdgesOffered(plan.obstacles, path_table[k])
            /\ cost_table[k] = PathCost(plan.obstacles, path_table[k], 1) + k[2].penalty

\* a search recorded a path to a goal with a penalty whose g value was
\* overwritten: the recorded path costs more than the one the search finds to
\* the same pose without the penalty
C26_Witness ==
    /\ plan.called
    /\ ~plan.raised
    /\ \E k \in RecordedApart :
          /\ k[2].penalty > 0
          /\ Len(MovesToPose(plan.obstacles, k[1], k[2])) > 0
          /\ PathCost(plan.obstacles, path_table[k], 1)
                > PathCost(plan.obstacles, MovesToPose(plan.obstacles, k[1], k[2]), 1)

(***************************************************************************)
(* C27                                                                     *)
(***************************************************************************)
\* C27: every pose that a path recorded by the last planning call enters by
\* a primitive move satisfies Grid.reachable: it is interior and farther
\* than Manhattan distance 2 from every obstacle
C27_PathPosesPassReachable ==
    (plan.called /\ ~plan.raised) =>
        \A k \in RecordedApart :
            \A i \in 2..Len(path_table[k]) :
                reachable(plan.obstacles, path_table[k][i][1], path_table[k][i][2])

(***************************************************************************)
(* C28                                                                     *)
(***************************************************************************)
\* C28: whenever get_optimal_path accepts a slot assignment, every
\* consecutive pair of visit states of the TSP permutation has an entry in
\* path_table: no lookup of line 159 fails on a missing key.  A pair has an
\* entry in path_table exactly when it has one in cost_table, so no stitched
\* pair had 1e9 in the matrix.
C28_AcceptedTourHasEveryPath ==
    /\ DOMAIN path_table = DOMAIN cost_table
    /\ plan.called => ~plan.missing

\* a planning call in which a search emptied the heap, so that the matrix
\* held 1e9 entries, accepted an assignment and returned a tour to two
\* obstacles
C28_Witness ==
    /\ plan.called
    /\ ~plan.raised
    /\ plan.accepted > 0
    /\ plan.exhausted # {}
    /\ Len(plan.combination) >= 2

(***************************************************************************)
(* C29                                                                     *)
(***************************************************************************)
\* C29: every _astar_search of a planning call terminates: no pose is
\* expanded more than once, so the loop makes no more than MaxPasses
\* passes, and it ends by popping the goal or by emptying the heap.
C29_SearchTerminates ==
    plan.called =>
        /\ ~plan.unfinished
        /\ ~plan.twice

\* a planning call ran searches that popped the goal and searches that
\* emptied the heap, and a pose was popped again after its expansion
C29_Witness ==
    /\ plan.called
    /\ plan.exhausted # {}
    /\ SearchedKeys(plan, path_table) # {}
    /\ plan.skipped > 0

(***************************************************************************)
(* C30                                                                     *)
(***************************************************************************)
\* the penalties of the slots the returned tour of the plan p uses
ChosenPenalties(p) ==
    IF p.accepted = 0 THEN {}
    ELSE {cur_view_positions(ViewsOf(p), p.bin_pos)[idx][p.combination[idx] + 1].penalty :
            idx \in 1..Len(p.combination)}

\* the candidate list cells of the obstacle ob holds neither the pose of
\* slot 0 (ahead of the obstacle by 2) nor any pose with the penalty of
\* slot 0
WithoutSlotZero(ob, cells) ==
    \A c \in Candidates(cells) :
        /\ c[4] # TOO_CLOSE_COST
        /\ <<c[1], c[2]>> # <<Slot(ob, 2, 0, TOO_CLOSE_COST)[1], Slot(ob, 2, 0, TOO_CLOSE_COST)[2]>>

\* C30: whatever the obstacles, the slot-0 viewing pose of an obstacle
\* (ahead by 2, penalty TOO_CLOSE_COST) is in no candidate list
\* get_view_obstacle_positions returns, and no returned tour uses a slot with
\* the penalty TOO_CLOSE_COST.
C30_SlotZeroIsNeverACandidate ==
    /\ \A n \in 1..Len(Facing(obstacles)) :
          WithoutSlotZero(obstacles[Facing(obstacles)[n]],
                          get_view_obstacle_positions(obstacles, 1, 1)[n])
    /\ plan.called => TOO_CLOSE_COST \notin ChosenPenalties(plan)

\* a returned tour uses the slot ahead of an obstacle by 3, and the slot-0
\* cell of an obstacle of the call is in the interior of the grid: the
\* clearance test is what removes it
C30_Witness ==
    /\ plan.called
    /\ ~plan.raised
    /\ (TOO_CLOSE_COST \div 2) \in ChosenPenalties(plan)
    /\ \E i \in 1..Len(plan.obstacles) :
          /\ plan.obstacles[i].direction # SKIP
          /\ is_valid_coord(Slot(plan.obstacles[i], 2, 0, TOO_CLOSE_COST)[1],
                            Slot(plan.obstacles[i], 2, 0, TOO_CLOSE_COST)[2])

====
